---- MODULE Spec2Model ----
(***************************************************************************)
(* Model of CONNECTIVITYLIB::Coherency (coherency.cpp): the trial phase    *)
(* (compute, one task per trial, merged into matPsdSum / vecPairCsdSum     *)
(* under a mutex), the square root of matPsdSum, and the normalization     *)
(* phase (computePSDCSD / computePSDCSDReal / computePSDCSDImag, one task  *)
(* per entry of vecPairCsdSum) that fills the Network.                     *)
(*                                                                         *)
(* Numbers are exact.  A real or complex value of a call with FFT length n *)
(* is an element of the field Q(z), z = exp(-2*pi*i/n), with rational      *)
(* coefficients <<p, q>>.  Square roots and quotients, which leave that    *)
(* field, are kept as terms.                                               *)
(***************************************************************************)
EXTENDS Integers, Sequences, FiniteSets, TLC

(***************************************************************************)
(* Bounds of the model.                                                    *)
(***************************************************************************)
MaxChannels == 2
MaxSamples  == 2
MaxNfft     == 3
MaxTrials   == 2
MaxSeed     == 1
MaxRuns     == 2
MaxComputeSamples == 4
MaxComputeNfft == 5
MaxNonPositive == 1
MaxInits    == 1
MaxSerials  == 5

(***************************************************************************)
(* Rational numbers <<p, q>>, q > 0, in lowest terms.                      *)
(***************************************************************************)
Abs(x) == IF x < 0 THEN -x ELSE x

RECURSIVE GCD(_, _)
GCD(a, b) == IF b = 0 THEN a ELSE GCD(b, a % b)

Rat(p, q) ==
    LET s == IF q < 0 THEN -1 ELSE 1
        g == GCD(Abs(p), Abs(q))
    IN  IF p = 0 THEN <<0, 1>> ELSE <<(s * p) \div g, (s * q) \div g>>

RZero == <<0, 1>>
RInt(n) == <<n, 1>>
RAdd(x, y) == Rat(x[1] * y[2] + y[1] * x[2], x[2] * y[2])
RSub(x, y) == Rat(x[1] * y[2] - y[1] * x[2], x[2] * y[2])
RMul(x, y) == Rat(x[1] * y[1], x[2] * y[2])
RDiv(x, y) == Rat(x[1] * y[2], x[2] * y[1])

RECURSIVE RSum(_, _)
RSum(f, n) == IF n = 0 THEN RZero ELSE RAdd(RSum(f, n - 1), f[n - 1])

(***************************************************************************)
(* Complex numbers of a call with FFT length n: elements of the field      *)
(* Q(z), z = exp(-2*pi*i/n), written [k |-> coefficient of z^k] and kept   *)
(* reduced modulo the minimal polynomial of z, so that two values are the  *)
(* same complex number exactly if they are equal.  The real numbers of the *)
(* field are the values whose coefficients of z^1, z^2, ... are 0.         *)
(***************************************************************************)
\* the minimal polynomial of z, lowest coefficient first
MinPoly(n) ==
    CASE n = 1 -> <<-1, 1>>
      [] n = 2 -> <<1, 1>>
      [] n = 3 -> <<1, 1, 1>>
      [] n = 4 -> <<1, 0, 1>>
      [] n = 5 -> <<1, 1, 1, 1, 1>>
      [] n = 6 -> <<1, -1, 1>>

RECURSIVE Reduce(_, _, _)
Reduce(v, phi, k) ==
    LET d == Len(phi) - 1
    IN  IF k < d THEN v
        ELSE Reduce([m \in DOMAIN v |->
                        IF m >= k - d /\ m <= k
                        THEN RSub(v[m], RMul(v[k], RInt(phi[m - (k - d) + 1])))
                        ELSE v[m]],
                    phi, k - 1)

VLen(v) == Cardinality(DOMAIN v)

\* TLC computes a function expression anew each time the function is applied;
\* a function that was compared is computed once and kept.
Evaluated(x) == IF x = x THEN x ELSE x

VCanon(v) == Evaluated(Reduce(v, MinPoly(VLen(v)), VLen(v) - 1))
VZero(n) == [k \in 0..(n - 1) |-> RZero]
VOne(n) == [k \in 0..(n - 1) |-> IF k = 0 THEN RInt(1) ELSE RZero]
VAdd(v, w) == Evaluated([k \in DOMAIN v |-> RAdd(v[k], w[k])])
VScale(v, r) == Evaluated([k \in DOMAIN v |-> RMul(v[k], r)])
VConj(v) == LET n == VLen(v) IN VCanon([k \in DOMAIN v |-> v[(n - k) % n]])
VMul(v, w) ==
    LET n == VLen(v)
    IN  VCanon([k \in DOMAIN v |->
                   RSum([a \in 0..(n - 1) |-> RMul(v[a], w[(k - a + n) % n])], n)])
VAbs2(v) == VMul(v, VConj(v))

(***************************************************************************)
(* Terms: a value that has left the field.  A term is a sequence of steps  *)
(* <<"add", v>> (v, a value of the field, is added to what stands before), *)
(* <<"sqrt">> (the square root of what stands before) and                  *)
(* <<"quot", a, b>> (what stands before, divided by the product of the     *)
(* terms a and b).  Adjacent additions are summed, adding 0 changes        *)
(* nothing, the square roots of 0 and of 1 are 0 and 1, 0 divided by what  *)
(* is not 0 is 0, and what a division by 0 gives (an infinity or a NaN)    *)
(* is the one term Undefined, which every further operation keeps.         *)
(***************************************************************************)
Lift(v) == << <<"add", v>> >>
Undefined == << <<"nan">> >>
IsZero(t) == Len(t) = 1 /\ t[1][1] = "add" /\ t[1][2] = VZero(VLen(t[1][2]))
TAdd(t, v) ==
    IF t = Undefined THEN Undefined
    ELSE IF v = VZero(VLen(v)) THEN t
    ELSE IF t[Len(t)][1] = "add"
    THEN [t EXCEPT ![Len(t)] = <<"add", VAdd(t[Len(t)][2], v)>>]
    ELSE Append(t, <<"add", v>>)
TSqrt(t) ==
    IF t = Undefined THEN Undefined
    ELSE IF Len(t) = 1 /\ t[1][1] = "add"
          /\ t[1][2] \in {VZero(VLen(t[1][2])), VOne(VLen(t[1][2]))}
    THEN t
    ELSE Append(t, <<"sqrt">>)
TQuot(t, a, b) ==
    IF Undefined \in {t, a, b} \/ IsZero(a) \/ IsZero(b) THEN Undefined
    ELSE IF IsZero(t) THEN t
    ELSE Append(t, <<"quot", a, b>>)

(***************************************************************************)
(* Matrices: [rows, cols, e] with e[i][f] the coefficient of row i and     *)
(* column f, both counted from 0.  MatrixXd() has no rows and no columns.  *)
(***************************************************************************)
Mat(r, c, E(_, _)) ==
    [rows |-> r, cols |-> c,
     e |-> [i \in 0..(r - 1) |-> [f \in 0..(c - 1) |-> E(i, f)]]]
NoMat == [rows |-> 0, cols |-> 0, e |-> << >>]

(***************************************************************************)
(* Spectral::generateTapers(iSignalLength, sWindowType): a taper matrix    *)
(* (one row per taper, iSignalLength columns) and one weight per taper.    *)
(* "hanning" gives one taper of weight 1, "multitaper" two tapers.         *)
(***************************************************************************)
WindowTypes == {"hanning", "multitaper"}
Min(a, b) == IF a < b THEN a ELSE b
generateTapers(iSignalLength, sWindowType) ==
    LET bell(m) == 1 + Min(m, iSignalLength - 1 - m)
    IN  IF sWindowType = "hanning"
        THEN [first  |-> Mat(1, iSignalLength, LAMBDA k, m : RInt(bell(m))),
              second |-> [k \in 0..0 |-> RInt(1)]]
        ELSE [first  |-> Mat(2, iSignalLength,
                             LAMBDA k, m : IF k = 0 THEN RInt(bell(m)) ELSE RInt(m + 1)),
              second |-> [k \in 0..1 |-> RInt(2 - k)]]

(***************************************************************************)
(* The sample matrices a trial can hold: rows x cols small integers.       *)
(***************************************************************************)
SampleMatrix(seed, rows, cols) ==
    Mat(rows, cols, LAMBDA c, m : RInt(((seed + 1) * (m + 1) * (m + c + 1)) % 5))

(***************************************************************************)
(* Coherency::compute, the computation of one trial (lines 367-436).       *)
(***************************************************************************)
\* a bin count without the bin of the highest frequency
NFreqsTruncated(iNfft) == iNfft \div 2

\* int(floor(iNfft / 2.0)) + 1
NFreqs(iNfft) == (iNfft \div 2) + 1

\* inputData.matData.row(i).array() - inputData.matData.row(i).mean()
RowData(matData, i) ==
    LET mean == RDiv(RSum(matData.e[i], matData.cols), RInt(matData.cols))
    IN  Evaluated([m \in 0..(matData.cols - 1) |-> RSub(matData.e[i][m], mean)])

\* fft.fwd(vecTmpFreq, vecInputFFT, iNfft) with the HalfSpectrum flag: bin f of
\* the input, zero-padded to iNfft samples, is the sum of x[m] * z^(f*m).
fwd(x, len, iNfft) ==
    [f \in 0..(NFreqs(iNfft) - 1) |->
        VCanon([k \in 0..(iNfft - 1) |->
                   RSum([m \in 0..(len - 1) |->
                            IF (f * m) % iNfft = k THEN x[m] ELSE RZero], len)])]

\* matTapSpectrum for channel i: row j is the spectrum of the row tapered by
\* taper j, times the weight of taper j.
TapSpectrum(matData, tapers, iNfft, i) ==
    LET rowData == RowData(matData, i)
    IN  Evaluated([j \in 0..(tapers.first.rows - 1) |->
            LET vecInputFFT == [m \in 0..(matData.cols - 1) |->
                                   RMul(rowData[m], tapers.first.e[j][m])]
                vecTmpFreq == fwd(vecInputFFT, matData.cols, iNfft)
            IN  [f \in DOMAIN vecTmpFreq |-> VScale(vecTmpFreq[f], tapers.second[j])]])

\* tapers.second.cwiseAbs2().sum()
WeightNorm2(tapers) ==
    RSum([j \in DOMAIN tapers.second |-> RMul(tapers.second[j], tapers.second[j])],
         Cardinality(DOMAIN tapers.second))

RECURSIVE VSum(_, _, _)
VSum(F(_), n, iNfft) ==
    IF n = 0 THEN VZero(iNfft) ELSE VAdd(VSum(F, n - 1, iNfft), F(n - 1))

\* the first and the last element divided by 2, whatever iNfft is
HalfSpectrumFixBoth(row, iNFreqs, iNfft) ==
    LET half == <<1, 2>>
        first == [row EXCEPT ![0] = VScale(@, half)]
    IN  [first EXCEPT ![iNFreqs - 1] = VScale(@, half)]

\* "Divide first and last element by 2 due to half spectrum"
HalfSpectrumFix(row, iNFreqs, iNfft) ==
    LET half == <<1, 2>>
        first == [row EXCEPT ![0] = VScale(@, half)]
    IN  IF iNfft % 2 = 0
        THEN [first EXCEPT ![iNFreqs - 1] = VScale(@, half)]
        ELSE first

\* a PSD row divided by the whole sum of the squared weights
PsdRowWholeNorm(matData, tapers, iNFreqs, iNfft, i) ==
    LET spec == TapSpectrum(matData, tapers, iNfft, i)
        denomPSD == WeightNorm2(tapers)
        raw == [f \in 0..(iNFreqs - 1) |->
                   VScale(VSum(LAMBDA j : VAbs2(spec[j][f]), tapers.first.rows, iNfft),
                          RDiv(RInt(1), denomPSD))]
    IN  Evaluated(HalfSpectrumFix(raw, iNFreqs, iNfft))

\* inputData.matPsd.row(i)
PsdRow(matData, tapers, iNFreqs, iNfft, i) ==
    LET spec == TapSpectrum(matData, tapers, iNfft, i)
        denomPSD == RDiv(WeightNorm2(tapers), RInt(2))
        raw == [f \in 0..(iNFreqs - 1) |->
                   VScale(VSum(LAMBDA j : VAbs2(spec[j][f]), tapers.first.rows, iNfft),
                          RDiv(RInt(1), denomPSD))]
    IN  Evaluated(HalfSpectrumFix(raw, iNFreqs, iNfft))

MatPsd(matData, tapers, iNRows, iNFreqs, iNfft) ==
    [rows |-> iNRows, cols |-> iNFreqs,
     e |-> [i \in 0..(iNRows - 1) |-> PsdRow(matData, tapers, iNFreqs, iNfft, i)]]

\* matCsd.row(j) as written in iteration i of the outer loop, j >= i
CsdRow(matData, tapers, iNFreqs, iNfft, i, j) ==
    LET si == TapSpectrum(matData, tapers, iNfft, i)
        sj == TapSpectrum(matData, tapers, iNfft, j)
        denomCSD == RDiv(WeightNorm2(tapers), RInt(2))
        raw == [f \in 0..(iNFreqs - 1) |->
                   VScale(VSum(LAMBDA k : VMul(si[k][f], VConj(sj[k][f])),
                               tapers.first.rows, iNfft),
                          RDiv(RInt(1), denomCSD))]
    IN  Evaluated(HalfSpectrumFix(raw, iNFreqs, iNfft))

\* matCsd after iteration i of the outer loop: the matrix is declared once,
\* before the loop, so the rows j < i keep what iteration j wrote into them.
RECURSIVE MatCsd(_, _, _, _, _, _)
MatCsd(matData, tapers, iNRows, iNFreqs, iNfft, i) ==
    [rows |-> iNRows, cols |-> iNFreqs,
     e |-> [j \in 0..(iNRows - 1) |->
              IF j >= i
              THEN CsdRow(matData, tapers, iNFreqs, iNfft, i, j)
              ELSE MatCsd(matData, tapers, iNRows, iNFreqs, iNfft, i - 1).e[j]]]

\* the entries compute() appends to inputData.vecPairCsd
RECURSIVE NewPairCsd(_, _, _, _, _, _)
NewPairCsd(matData, tapers, iNRows, iNFreqs, iNfft, n) ==
    IF n = 0 THEN << >>
    ELSE Append(NewPairCsd(matData, tapers, iNRows, iNFreqs, iNfft, n - 1),
                [first |-> n - 1,
                 second |-> MatCsd(matData, tapers, iNRows, iNFreqs, iNfft, n - 1)])

(***************************************************************************)
(* GUSBAmpDriver (gusbampdriver.cpp).  The driver object is a record of    *)
(* its members; a setter is first given as the function from the object    *)
(* and the argument to the result and the object it leaves, so that the    *)
(* constructor, which calls three setters, is their composition.           *)
(***************************************************************************)
\* UCHAR(x)
UCHAR(x) == x % 256

\* the sample rates of the switch in setSampleRate and their numbers of scans
ScansOf(sampleRate) ==
    CASE sampleRate = 32 -> 1
      [] sampleRate = 64 -> 2
      [] sampleRate = 128 -> 8
      [] sampleRate = 256 -> 16
      [] sampleRate = 512 -> 32
      [] sampleRate = 600 -> 64
      [] sampleRate = 1200 -> 128
      [] sampleRate = 2400 -> 128
      [] sampleRate = 4800 -> 256
      [] sampleRate = 9600 -> 512
      [] sampleRate = 19200 -> 512
      [] sampleRate = 38400 -> 512
      [] OTHER -> 0

\* "refresh size of output matrix"
RefreshSize(d) ==
    [d EXCEPT !.m_sizeOfMatrix =
        <<d.m_NUMBER_OF_CHANNELS * (1 + d.m_SLAVE_SERIALS_SIZE),
          d.m_NUMBER_OF_SCANS * d.m_QUEUE_SIZE>>]

Rejected(d) == [ret |-> FALSE, d |-> d]
Accepted(d) == [ret |-> TRUE, d |-> d]

\* setSerials; first is what m_vpSerials[0] yields, which for an empty list is
\* not an element of the vector
SerialsSet(d, list, first) ==
    LET size == Len(list)
    IN  IF d.m_isRunning THEN Rejected(d)
        ELSE IF size > 4 THEN Rejected(d)
        ELSE Accepted(RefreshSize(
                 [d EXCEPT !.m_SLAVE_SERIALS_SIZE = size - 1,
                           !.m_callSequenceSerials =
                               SubSeq(list, 2, size) \o <<first>>]))

\* setSampleRate
SampleRateSet(d, sampleRate) ==
    IF d.m_isRunning THEN Rejected(d)
    ELSE IF ScansOf(sampleRate) = 0 THEN Rejected(d)
    ELSE Accepted(RefreshSize([d EXCEPT !.m_NUMBER_OF_SCANS = ScansOf(sampleRate),
                                        !.m_SAMPLE_RATE_HZ = sampleRate]))

\* the value of i after the do-while loop of setChannels; list[i] of the code
\* is list[i + 1] here
ChannelsChecked(list) ==
    LET size == Len(list)
        Stops(i) == ~(i < size /\ list[i + 1] > list[i] /\ list[i + 1] < 17)
    IN  CHOOSE i \in 1..(size + 1) : Stops(i) /\ \A k \in 1..(i - 1) : ~Stops(k)

\* a setChannels that stores the list and leaves m_sizeOfMatrix as it was
ChannelsSetUnrefreshed(d, list) ==
    LET size == Len(list)
    IN  IF d.m_isRunning THEN Rejected(d)
        ELSE IF size > 16 THEN Rejected(d)
        ELSE IF ChannelsChecked(list) # size THEN Rejected(d)
        ELSE Accepted([d EXCEPT !.m_channelsToAcquire =
                                    [i \in 1..16 |-> IF i <= size THEN UCHAR(list[i]) ELSE @[i]],
                                !.m_NUMBER_OF_CHANNELS = UCHAR(size)])

\* setChannels
ChannelsSet(d, list) ==
    LET size == Len(list)
    IN  IF d.m_isRunning THEN Rejected(d)
        ELSE IF size > 16 THEN Rejected(d)
        ELSE IF ChannelsChecked(list) # size THEN Rejected(d)
        ELSE Accepted(RefreshSize(
                 [d EXCEPT !.m_channelsToAcquire =
                               [i \in 1..16 |-> IF i <= size THEN UCHAR(list[i]) ELSE @[i]],
                           !.m_NUMBER_OF_CHANNELS = UCHAR(size)]))

\* setFileWriting
FileWritingSet(d, doFileWriting) ==
    IF d.m_isRunning THEN Rejected(d)
    ELSE Accepted([d EXCEPT !.m_bIsWriting = doFileWriting])

\* setFilePath
FilePathSet(d, FilePath) ==
    IF d.m_isRunning THEN Rejected(d)
    ELSE Accepted([d EXCEPT !.m_filePath = FilePath, !.m_bIsWriting = TRUE])

DefaultSerial == "UB-2015.05.16"

\* the members as the initializer list and the first lines of the constructor
\* leave them; those without an initializer are given as 0 or empty
Members ==
    [m_NUMBER_OF_CHANNELS |-> 0, m_NUMBER_OF_SCANS |-> 0, m_SLAVE_SERIALS_SIZE |-> 0,
     m_QUEUE_SIZE |-> 4, m_isRunning |-> FALSE, m_bIsWriting |-> FALSE,
     m_filePath |-> "", m_sizeOfMatrix |-> <<0, 0>>, m_SAMPLE_RATE_HZ |-> 0,
     m_channelsToAcquire |-> [i \in 1..16 |-> 0], m_callSequenceSerials |-> << >>,
     m_openedDevicesHandles |-> << >>, m_callSequenceHandles |-> << >>,
     m_numDevices |-> 0, buffers |-> FALSE, fileOpen |-> FALSE]

\* GUSBAmpDriver::GUSBAmpDriver
Constructed ==
    LET serials == SerialsSet(Members, <<DefaultSerial>>, DefaultSerial).d
        channels == ChannelsSet(serials, [i \in 1..16 |-> i]).d
    IN  SampleRateSet(channels, 1200).d

\* no call of the driver has been made
NoCall == [op |-> "none", ret |-> TRUE, inits |-> 0]

(***************************************************************************)
(* State.                                                                  *)
(***************************************************************************)
VARIABLES
    nChannels,      \* rows of every trial's matData; nodes of a Network
    nSamples,       \* columns of every trial's matData
    m_iNfft,        \* ConnectivitySettings::m_iNfft
    m_sWindowType,  \* ConnectivitySettings::m_sWindowType
    m_dataList,     \* ConnectivitySettings::m_dataList: matData, matPsd, vecPairCsd
    matPsdSum,      \* ConnectivitySettings::data.matPsdSum
    vecPairCsdSum,  \* ConnectivitySettings::data.vecPairCsdSum
    finalNetwork,   \* the Network handed to calculateReal / calculateImag
    vecCoherency,   \* the vector handed to calculate
    pc,             \* where the calling thread is: idle, map1, sqrt, map2
    variant,        \* which of calculate / calculateReal / calculateImag runs
    iNfft,          \* locals of the running calculate*
    iNRows,
    iNFreqs,
    tapers,
    mutex,          \* QMutex mutex: <<"free", 0>> or the task holding it
    tpc,            \* per trial task: where it is in compute()
    ntask,          \* per normalization task: pc, j, matCohy, pEdge
    nMerge,         \* per trial task: merges it has completed in this run
    runs,           \* calls made so far
    ret,            \* how the call that has just come back ended: none, empty, done
    atCall,         \* what the running call found when it was made
    driver,         \* the GUSBAmpDriver object
    devices,        \* the device handles the API has given out, in order
    dcall           \* the last call of the driver, its result, the inits so far

vars == <<nChannels, nSamples, m_iNfft, m_sWindowType, m_dataList, matPsdSum,
          vecPairCsdSum, finalNetwork, vecCoherency, pc, variant, iNfft, iNRows,
          iNFreqs, tapers, mutex, tpc, ntask, nMerge, runs, ret, atCall,
          driver, devices, dcall>>

gusbVars == <<driver, devices, dcall>>
coherencyVars == <<nChannels, nSamples, m_iNfft, m_sWindowType, m_dataList, matPsdSum,
                   vecPairCsdSum, finalNetwork, vecCoherency, pc, variant, iNfft,
                   iNRows, iNFreqs, tapers, mutex, tpc, ntask, nMerge, runs, ret,
                   atCall>>

\* the driver after construction, no device handle given out yet
InitDriver == driver = Constructed /\ devices = << >> /\ dcall = NoCall

settingsVars == <<nChannels, nSamples, m_iNfft, m_sWindowType>>
localVars == <<iNfft, iNRows, iNFreqs, tapers>>

Variants == {"cplx", "real", "imag"}
Free == <<"free", 0>>

\* ConnectivityTrialData as constructed from a sample matrix: nothing cached
NewTrial(matData) == [matData |-> matData, matPsd |-> NoMat, vecPairCsd |-> << >>]

\* a Network with one node per channel and no edge
NewNetwork(n) == [nodes |-> [c \in 0..(n - 1) |-> << >>], edges |-> << >>]

\* QSharedPointer<NetworkEdge>(): no edge
NoEdge == [src |-> -1, dst |-> -1, w |-> << >>, id |-> << >>]

Init ==
    /\ nChannels \in 1..MaxChannels
    /\ nSamples \in 1..MaxSamples
    /\ m_iNfft \in 1..MaxNfft
    /\ m_sWindowType \in WindowTypes
    /\ m_dataList = << >>
    /\ matPsdSum = NoMat
    /\ vecPairCsdSum = << >>
    /\ finalNetwork = NewNetwork(nChannels)
    /\ vecCoherency = << >>
    /\ pc = "idle"
    /\ variant = "real"
    /\ iNfft = 0 /\ iNRows = 0 /\ iNFreqs = 0
    /\ tapers = [first |-> NoMat, second |-> << >>]
    /\ mutex = Free
    /\ tpc = << >>
    /\ ntask = << >>
    /\ nMerge = << >>
    /\ runs = 0
    /\ ret = "none"
    /\ InitDriver
    /\ atCall = [clean |-> FALSE, cached |-> << >>, matPsdSum |-> NoMat,
                 vecPairCsdSum |-> << >>, finalNetwork |-> NewNetwork(nChannels)]

(***************************************************************************)
(* The caller, between two calls.                                          *)
(***************************************************************************)
\* a further trial of the same shape is appended to m_dataList
AppendTrial(seed) ==
    /\ pc = "idle"
    /\ runs < MaxRuns
    /\ Len(m_dataList) < MaxTrials
    /\ m_dataList' = Append(m_dataList, NewTrial(SampleMatrix(seed, nChannels, nSamples)))
    /\ ret' = "none"
    /\ UNCHANGED <<gusbVars, settingsVars, matPsdSum, vecPairCsdSum, finalNetwork, vecCoherency,
                   pc, variant, localVars, mutex, tpc, ntask, nMerge, runs, atCall>>

\* the caller builds a new Network for the next call
FreshNetwork ==
    /\ pc = "idle"
    /\ runs < MaxRuns
    /\ finalNetwork # NewNetwork(nChannels)
    /\ finalNetwork' = NewNetwork(nChannels)
    /\ ret' = "none"
    /\ UNCHANGED <<gusbVars, settingsVars, m_dataList, matPsdSum, vecPairCsdSum, vecCoherency,
                   pc, variant, localVars, mutex, tpc, ntask, nMerge, runs, atCall>>

(***************************************************************************)
(* calculate / calculateReal / calculateImag up to the first map.          *)
(***************************************************************************)
\* the configured length taken as it is
ConfiguredNfft(nfft, iSignalLength) == nfft

\* "Check that iNfft >= signal length"
EffectiveNfft(nfft, iSignalLength) ==
    IF nfft < iSignalLength THEN iSignalLength ELSE nfft

\* a call that goes on to the first map with an empty list
CallEmptyGoesOn(v) ==
    /\ pc = "idle"
    /\ runs < MaxRuns
    /\ m_dataList = << >>
    /\ variant' = v
    /\ runs' = runs + 1
    /\ ret' = "none"
    /\ pc' = "map1"
    /\ UNCHANGED <<gusbVars, settingsVars, m_dataList, matPsdSum, vecPairCsdSum, finalNetwork,
                   vecCoherency, localVars, mutex, tpc, ntask, nMerge, atCall>>

\* if(connectivitySettings.m_dataList.empty()) return;
CallEmpty(v) ==
    /\ pc = "idle"
    /\ runs < MaxRuns
    /\ m_dataList = << >>
    /\ variant' = v
    /\ runs' = runs + 1
    /\ ret' = "empty"
    /\ UNCHANGED <<gusbVars, settingsVars, m_dataList, matPsdSum, vecPairCsdSum, finalNetwork,
                   vecCoherency, pc, localVars, mutex, tpc, ntask, nMerge, atCall>>

Call(v) ==
    /\ pc = "idle"
    /\ runs < MaxRuns
    /\ m_dataList # << >>
    /\ variant' = v
    /\ runs' = runs + 1
    /\ ret' = "none"
    /\ LET iSignalLength == m_dataList[1].matData.cols
           nfft == EffectiveNfft(m_iNfft, iSignalLength)
       IN  /\ iNfft' = nfft
           /\ tapers' = generateTapers(iSignalLength, m_sWindowType)
           /\ iNRows' = m_dataList[1].matData.rows
           /\ iNFreqs' = NFreqs(nfft)
    /\ mutex' = Free
    /\ tpc' = [t \in 1..Len(m_dataList) |-> "start"]
    /\ nMerge' = [t \in 1..Len(m_dataList) |-> 0]
    /\ ntask' = << >>
    /\ atCall' = [clean |-> /\ matPsdSum = NoMat
                            /\ vecPairCsdSum = << >>
                            /\ \A t \in DOMAIN m_dataList :
                                   m_dataList[t] = NewTrial(m_dataList[t].matData)
                            /\ finalNetwork = NewNetwork(m_dataList[1].matData.rows),
                  cached |-> [t \in DOMAIN m_dataList |->
                                 /\ Len(m_dataList[t].vecPairCsd) = iNRows'
                                 /\ m_dataList[t].matPsd.rows = iNRows'
                                 /\ m_dataList[t].matPsd.cols = iNFreqs'],
                  matPsdSum |-> matPsdSum,
                  vecPairCsdSum |-> vecPairCsdSum,
                  finalNetwork |-> finalNetwork]
    /\ pc' = "map1"
    /\ UNCHANGED <<gusbVars, settingsVars, m_dataList, matPsdSum, vecPairCsdSum, finalNetwork,
                   vecCoherency>>

(***************************************************************************)
(* Coherency::compute, one task per trial of m_dataList.                   *)
(***************************************************************************)
\* a check that never finds the trial computed
NeverComputed(inputData) == FALSE

\* "vecPairCsdAvg and matPsdSum were already computed for this trial."
AlreadyComputed(inputData) ==
    /\ Len(inputData.vecPairCsd) = iNRows
    /\ inputData.matPsd.rows = iNRows
    /\ inputData.matPsd.cols = iNFreqs

\* a task that goes on after the check and appends the CSD entries once more
TrialAppendsAgain(t) ==
    /\ tpc[t] = "start"
    /\ AlreadyComputed(m_dataList[t])
    /\ m_dataList' = [m_dataList EXCEPT ![t].vecPairCsd = @ \o @]
    /\ tpc' = [tpc EXCEPT ![t] = "done"]
    /\ UNCHANGED <<gusbVars, settingsVars, matPsdSum, vecPairCsdSum, finalNetwork,
                   vecCoherency, pc, variant, localVars, mutex, ntask, nMerge, runs, ret, atCall>>

\* the early return of compute(), lines 358-363
TrialReturnsEarly(t) ==
    /\ tpc[t] = "start"
    /\ AlreadyComputed(m_dataList[t])
    /\ tpc' = [tpc EXCEPT ![t] = "done"]
    /\ UNCHANGED <<gusbVars, settingsVars, m_dataList, matPsdSum, vecPairCsdSum, finalNetwork,
                   vecCoherency, pc, variant, localVars, mutex, ntask, nMerge, runs, ret, atCall>>

\* a task that also writes the rows without their mean back into matData
TrialComputesInPlace(t) ==
    /\ tpc[t] = "start"
    /\ ~AlreadyComputed(m_dataList[t])
    /\ LET inputData == m_dataList[t]
       IN  m_dataList' = [m_dataList EXCEPT ![t] =
               [matData |-> [inputData.matData EXCEPT
                                !.e = [i \in DOMAIN inputData.matData.e |->
                                          RowData(inputData.matData, i)]],
                matPsd |-> MatPsd(inputData.matData, tapers, iNRows, iNFreqs, iNfft),
                vecPairCsd |-> inputData.vecPairCsd \o
                    NewPairCsd(inputData.matData, tapers, iNRows, iNFreqs, iNfft, iNRows)]]
    /\ tpc' = [tpc EXCEPT ![t] = "lock"]
    /\ UNCHANGED <<gusbVars, settingsVars, matPsdSum, vecPairCsdSum, finalNetwork, vecCoherency,
                   pc, variant, localVars, mutex, ntask, nMerge, runs, ret, atCall>>

\* the PSD and the CSD of the trial, written into the trial itself
TrialComputes(t) ==
    /\ tpc[t] = "start"
    /\ ~AlreadyComputed(m_dataList[t])
    /\ LET inputData == m_dataList[t]
       IN  m_dataList' = [m_dataList EXCEPT ![t] =
               [matData |-> inputData.matData,
                matPsd |-> MatPsd(inputData.matData, tapers, iNRows, iNFreqs, iNfft),
                vecPairCsd |-> inputData.vecPairCsd \o
                    NewPairCsd(inputData.matData, tapers, iNRows, iNFreqs, iNfft, iNRows)]]
    /\ tpc' = [tpc EXCEPT ![t] = "lock"]
    /\ UNCHANGED <<gusbVars, settingsVars, matPsdSum, vecPairCsdSum, finalNetwork, vecCoherency,
                   pc, variant, localVars, mutex, ntask, nMerge, runs, ret, atCall>>

\* a lock that does not wait for the mutex to be free
TrialLocksAtOnce(t) ==
    /\ tpc[t] = "lock"
    /\ mutex' = <<"trial", t>>
    /\ tpc' = [tpc EXCEPT ![t] = "psd"]
    /\ UNCHANGED <<gusbVars, settingsVars, m_dataList, matPsdSum, vecPairCsdSum, finalNetwork,
                   vecCoherency, pc, variant, localVars, ntask, nMerge, runs, ret, atCall>>

\* mutex.lock()
TrialLocks(t) ==
    /\ tpc[t] = "lock"
    /\ mutex = Free
    /\ mutex' = <<"trial", t>>
    /\ tpc' = [tpc EXCEPT ![t] = "psd"]
    /\ UNCHANGED <<gusbVars, settingsVars, m_dataList, matPsdSum, vecPairCsdSum, finalNetwork,
                   vecCoherency, pc, variant, localVars, ntask, nMerge, runs, ret, atCall>>

\* a merge that copies every time
MergePsdCopies(sum, matPsd) ==
    Mat(matPsd.rows, matPsd.cols, LAMBDA i, f : Lift(matPsd.e[i][f]))

\* matPsdSum = inputData.matPsd, or matPsdSum += inputData.matPsd
MergePsd(sum, matPsd) ==
    IF sum.rows = 0 \/ sum.cols = 0
    THEN Mat(matPsd.rows, matPsd.cols, LAMBDA i, f : Lift(matPsd.e[i][f]))
    ELSE Mat(sum.rows, sum.cols, LAMBDA i, f : TAdd(sum.e[i][f], matPsd.e[i][f]))

\* Eigen's += is defined for operands of one shape only
SameShape(A, B) == A.rows = B.rows /\ A.cols = B.cols

PsdMergeDefined(t) ==
    IF matPsdSum.rows = 0 \/ matPsdSum.cols = 0
    THEN TRUE
    ELSE SameShape(matPsdSum, m_dataList[t].matPsd)

TrialMergesPsd(t) ==
    /\ tpc[t] = "psd"
    /\ PsdMergeDefined(t)
    /\ matPsdSum' = MergePsd(matPsdSum, m_dataList[t].matPsd)
    /\ tpc' = [tpc EXCEPT ![t] = "csd"]
    /\ UNCHANGED <<gusbVars, settingsVars, m_dataList, vecPairCsdSum, finalNetwork, vecCoherency,
                   pc, variant, localVars, mutex, ntask, nMerge, runs, ret, atCall>>

\* vecPairCsdAvg = inputData.vecPairCsd, or entry j of the one added to entry j
\* of the other for every j below vecPairCsdAvg.size()
MergeCsd(sum, vecPairCsd) ==
    IF sum = << >>
    THEN [j \in 1..Len(vecPairCsd) |->
            [first |-> vecPairCsd[j].first,
             second |-> Mat(vecPairCsd[j].second.rows, vecPairCsd[j].second.cols,
                            LAMBDA i, f : Lift(vecPairCsd[j].second.e[i][f]))]]
    ELSE [j \in 1..Len(sum) |->
            [first |-> sum[j].first,
             second |-> Mat(sum[j].second.rows, sum[j].second.cols,
                            LAMBDA i, f : TAdd(sum[j].second.e[i][f],
                                               vecPairCsd[j].second.e[i][f]))]]

\* at(j) needs an entry j, and += operands of one shape
CsdMergeDefined(t) ==
    IF vecPairCsdSum = << >>
    THEN TRUE
    ELSE /\ Len(m_dataList[t].vecPairCsd) >= Len(vecPairCsdSum)
         /\ \A j \in DOMAIN vecPairCsdSum :
                SameShape(vecPairCsdSum[j].second, m_dataList[t].vecPairCsd[j].second)

TrialMergesCsd(t) ==
    /\ tpc[t] = "csd"
    /\ CsdMergeDefined(t)
    /\ vecPairCsdSum' = MergeCsd(vecPairCsdSum, m_dataList[t].vecPairCsd)
    /\ nMerge' = [nMerge EXCEPT ![t] = @ + 1]
    /\ tpc' = [tpc EXCEPT ![t] = "unlock"]
    /\ UNCHANGED <<gusbVars, settingsVars, m_dataList, matPsdSum, finalNetwork, vecCoherency,
                   pc, variant, localVars, mutex, ntask, runs, ret, atCall>>

\* a task that returns without mutex.unlock()
TrialLeavesLocked(t) ==
    /\ tpc[t] = "unlock"
    /\ tpc' = [tpc EXCEPT ![t] = "done"]
    /\ UNCHANGED <<gusbVars, settingsVars, m_dataList, matPsdSum, vecPairCsdSum, finalNetwork,
                   vecCoherency, pc, variant, localVars, mutex, ntask, nMerge, runs, ret, atCall>>

\* mutex.unlock()
TrialUnlocks(t) ==
    /\ tpc[t] = "unlock"
    /\ mutex' = Free
    /\ tpc' = [tpc EXCEPT ![t] = "done"]
    /\ UNCHANGED <<gusbVars, settingsVars, m_dataList, matPsdSum, vecPairCsdSum, finalNetwork,
                   vecCoherency, pc, variant, localVars, ntask, nMerge, runs, ret, atCall>>

(***************************************************************************)
(* The first barrier and the square root.                                  *)
(***************************************************************************)
\* a wait that comes back at once
TrialsNotAwaited == TRUE

\* result.waitForFinished()
TrialsFinished == \A t \in DOMAIN tpc : tpc[t] = "done"

WaitForTrials ==
    /\ pc = "map1"
    /\ TrialsFinished
    /\ pc' = "sqrt"
    /\ UNCHANGED <<gusbVars, settingsVars, m_dataList, matPsdSum, vecPairCsdSum, finalNetwork,
                   vecCoherency, variant, localVars, mutex, tpc, ntask, nMerge, runs, ret, atCall>>

\* the sums left as they are
cwiseUnchanged(A) == A

\* matPsdSum.cwiseSqrt()
cwiseSqrt(A) == Mat(A.rows, A.cols, LAMBDA i, f : TSqrt(A.e[i][f]))

\* matPsdSum = matPsdSum.cwiseSqrt(), then the second map is started: one task
\* per entry of vecPairCsdSum
SquareRoot ==
    /\ pc = "sqrt"
    /\ matPsdSum' = cwiseSqrt(matPsdSum)
    /\ ntask' = [k \in 1..Len(vecPairCsdSum) |->
                    [pc |-> "start", j |-> 0, matCohy |-> NoMat, pEdge |-> NoEdge]]
    /\ pc' = "map2"
    /\ UNCHANGED <<gusbVars, settingsVars, m_dataList, vecPairCsdSum, finalNetwork, vecCoherency,
                   variant, localVars, mutex, tpc, nMerge, runs, ret, atCall>>

(***************************************************************************)
(* The normalization tasks, one per entry of vecPairCsdSum.                *)
(***************************************************************************)
\* pairInput.second.cwiseQuotient(matPSDtmp), where row j of matPSDtmp is the
\* product of row pairInput.first and row j of matPsdSum
Quotient(pairInput, psdSum) ==
    Mat(pairInput.second.rows, pairInput.second.cols,
        LAMBDA j, f : TQuot(pairInput.second.e[j][f],
                            psdSum.e[pairInput.first][f], psdSum.e[j][f]))

\* Coherency::computePSDCSD: the quotient replaces the entry of vecPairCsdSum
NormComplex(k) ==
    /\ variant = "cplx"
    /\ ntask[k].pc = "start"
    /\ vecPairCsdSum' = [vecPairCsdSum EXCEPT ![k].second =
                            Quotient(vecPairCsdSum[k], matPsdSum)]
    /\ ntask' = [ntask EXCEPT ![k].pc = "done"]
    /\ UNCHANGED <<gusbVars, settingsVars, m_dataList, matPsdSum, finalNetwork, vecCoherency,
                   pc, variant, localVars, mutex, tpc, nMerge, runs, ret, atCall>>

\* a loop over all rows of matCohy
FirstRowZero(i) == 0

\* the first value of j in the loop over the rows of matCohy
FirstRow(i) == i

\* Coherency::computePSDCSDReal / computePSDCSDImag up to the loop: matCohy
NormStarts(k) ==
    /\ variant # "cplx"
    /\ ntask[k].pc = "start"
    /\ ntask' = [ntask EXCEPT ![k] =
                    [pc |-> "loop", j |-> FirstRow(vecPairCsdSum[k].first),
                     matCohy |-> Quotient(vecPairCsdSum[k], matPsdSum),
                     pEdge |-> NoEdge]]
    /\ UNCHANGED <<gusbVars, settingsVars, m_dataList, matPsdSum, vecPairCsdSum, finalNetwork,
                   vecCoherency, pc, variant, localVars, mutex, tpc, nMerge, runs, ret, atCall>>

\* matCohy.row(j).cwiseAbs().transpose() or matCohy.row(j).imag().transpose()
Weight(v, row) == [f \in DOMAIN row |-> <<IF v = "real" THEN "abs" ELSE "imag", row[f]>>]

\* an edge that calculateImag makes from j to i
NewEdgeImagTurned(v, r, k, i, j, matCohy) ==
    [src |-> IF v = "imag" THEN j ELSE i, dst |-> IF v = "imag" THEN i ELSE j,
     w |-> Weight(v, matCohy.e[j]), id |-> <<r, k, j>>]

\* new NetworkEdge(i, j, matWeight); the edge made in call r by task k for row j
\* is one object, told apart from every other by id
NewEdge(v, r, k, i, j, matCohy) ==
    [src |-> i, dst |-> j, w |-> Weight(v, matCohy.e[j]), id |-> <<r, k, j>>]

\* a lock that does not wait for the mutex to be free
NormLocksAtOnce(k) ==
    /\ ntask[k].pc = "loop"
    /\ ntask[k].j < ntask[k].matCohy.rows
    /\ mutex' = <<"norm", k>>
    /\ ntask' = [ntask EXCEPT ![k].pc = "node_i",
                              ![k].pEdge = NewEdge(variant, runs, k, vecPairCsdSum[k].first,
                                                   ntask[k].j, ntask[k].matCohy)]
    /\ UNCHANGED <<gusbVars, settingsVars, m_dataList, matPsdSum, vecPairCsdSum, finalNetwork,
                   vecCoherency, pc, variant, localVars, tpc, nMerge, runs, ret, atCall>>

\* j < matCohy.rows(): the edge is made, then mutex.lock()
NormLocks(k) ==
    /\ ntask[k].pc = "loop"
    /\ ntask[k].j < ntask[k].matCohy.rows
    /\ mutex = Free
    /\ mutex' = <<"norm", k>>
    /\ ntask' = [ntask EXCEPT ![k].pc = "node_i",
                              ![k].pEdge = NewEdge(variant, runs, k, vecPairCsdSum[k].first,
                                                   ntask[k].j, ntask[k].matCohy)]
    /\ UNCHANGED <<gusbVars, settingsVars, m_dataList, matPsdSum, vecPairCsdSum, finalNetwork,
                   vecCoherency, pc, variant, localVars, tpc, nMerge, runs, ret, atCall>>

\* finalNetwork.getNodeAt(i)->append(pEdge)
NormAppendsToSource(k) ==
    /\ ntask[k].pc = "node_i"
    /\ finalNetwork' = [finalNetwork EXCEPT
                           !.nodes[ntask[k].pEdge.src] = Append(@, ntask[k].pEdge)]
    /\ ntask' = [ntask EXCEPT ![k].pc = "node_j"]
    /\ UNCHANGED <<gusbVars, settingsVars, m_dataList, matPsdSum, vecPairCsdSum, vecCoherency,
                   pc, variant, localVars, mutex, tpc, nMerge, runs, ret, atCall>>

\* finalNetwork.getNodeAt(j)->append(pEdge)
NormAppendsToTarget(k) ==
    /\ ntask[k].pc = "node_j"
    /\ finalNetwork' = [finalNetwork EXCEPT
                           !.nodes[ntask[k].pEdge.dst] = Append(@, ntask[k].pEdge)]
    /\ ntask' = [ntask EXCEPT ![k].pc = "net"]
    /\ UNCHANGED <<gusbVars, settingsVars, m_dataList, matPsdSum, vecPairCsdSum, vecCoherency,
                   pc, variant, localVars, mutex, tpc, nMerge, runs, ret, atCall>>

\* finalNetwork.append(pEdge)
NormAppendsToNetwork(k) ==
    /\ ntask[k].pc = "net"
    /\ finalNetwork' = [finalNetwork EXCEPT !.edges = Append(@, ntask[k].pEdge)]
    /\ ntask' = [ntask EXCEPT ![k].pc = "unlock"]
    /\ UNCHANGED <<gusbVars, settingsVars, m_dataList, matPsdSum, vecPairCsdSum, vecCoherency,
                   pc, variant, localVars, mutex, tpc, nMerge, runs, ret, atCall>>

\* mutex.unlock(); ++j
NormUnlocks(k) ==
    /\ ntask[k].pc = "unlock"
    /\ mutex' = Free
    /\ ntask' = [ntask EXCEPT ![k].pc = "loop", ![k].j = @ + 1, ![k].pEdge = NoEdge]
    /\ UNCHANGED <<gusbVars, settingsVars, m_dataList, matPsdSum, vecPairCsdSum, finalNetwork,
                   vecCoherency, pc, variant, localVars, tpc, nMerge, runs, ret, atCall>>

\* j reached matCohy.rows(): the task is over
NormReturns(k) ==
    /\ ntask[k].pc = "loop"
    /\ ntask[k].j >= ntask[k].matCohy.rows
    /\ ntask' = [ntask EXCEPT ![k].pc = "done", ![k].matCohy = NoMat]
    /\ UNCHANGED <<gusbVars, settingsVars, m_dataList, matPsdSum, vecPairCsdSum, finalNetwork,
                   vecCoherency, pc, variant, localVars, mutex, tpc, nMerge, runs, ret, atCall>>

(***************************************************************************)
(* The second barrier and the return.                                      *)
(***************************************************************************)
\* resultCSDPSD.waitForFinished()
NormsFinished == \A k \in DOMAIN ntask : ntask[k].pc = "done"

\* calculate copies vecPairCsdSum into vecCoherency; the other two return
Return ==
    /\ pc = "map2"
    /\ NormsFinished
    /\ vecCoherency' = IF variant = "cplx" THEN vecPairCsdSum ELSE vecCoherency
    /\ pc' = "idle"
    /\ ret' = "done"
    /\ UNCHANGED <<gusbVars, settingsVars, m_dataList, matPsdSum, vecPairCsdSum, finalNetwork,
                   variant, localVars, mutex, tpc, ntask, nMerge, runs, atCall>>

Next ==
    \/ \E seed \in 0..MaxSeed : AppendTrial(seed)
    \/ FreshNetwork
    \/ \E v \in Variants : CallEmpty(v)
    \/ \E v \in Variants : Call(v)
    \/ \E t \in DOMAIN tpc : TrialReturnsEarly(t)
    \/ \E t \in DOMAIN tpc : TrialComputes(t)
    \/ \E t \in DOMAIN tpc : TrialLocks(t)
    \/ \E t \in DOMAIN tpc : TrialMergesPsd(t)
    \/ \E t \in DOMAIN tpc : TrialMergesCsd(t)
    \/ \E t \in DOMAIN tpc : TrialUnlocks(t)
    \/ WaitForTrials
    \/ SquareRoot
    \/ \E k \in DOMAIN ntask : NormComplex(k)
    \/ \E k \in DOMAIN ntask : NormStarts(k)
    \/ \E k \in DOMAIN ntask : NormLocks(k)
    \/ \E k \in DOMAIN ntask : NormAppendsToSource(k)
    \/ \E k \in DOMAIN ntask : NormAppendsToTarget(k)
    \/ \E k \in DOMAIN ntask : NormAppendsToNetwork(k)
    \/ \E k \in DOMAIN ntask : NormUnlocks(k)
    \/ \E k \in DOMAIN ntask : NormReturns(k)
    \/ Return

Spec == Init /\ [][Next]_vars

(***************************************************************************)
(* compute() as a function of the trial: settings with longer trials and   *)
(* larger FFT lengths, a call, and the computation of each trial up to the *)
(* merge.                                                                  *)
(***************************************************************************)
InitCompute ==
    /\ nChannels \in 1..MaxChannels
    /\ nSamples \in 1..MaxComputeSamples
    /\ m_iNfft \in 1..MaxComputeNfft
    /\ m_sWindowType \in WindowTypes
    /\ m_dataList = << >>
    /\ matPsdSum = NoMat
    /\ vecPairCsdSum = << >>
    /\ finalNetwork = NewNetwork(nChannels)
    /\ vecCoherency = << >>
    /\ pc = "idle"
    /\ variant = "real"
    /\ iNfft = 0 /\ iNRows = 0 /\ iNFreqs = 0
    /\ tapers = [first |-> NoMat, second |-> << >>]
    /\ mutex = Free
    /\ tpc = << >>
    /\ ntask = << >>
    /\ nMerge = << >>
    /\ runs = 0
    /\ ret = "none"
    /\ InitDriver
    /\ atCall = [clean |-> FALSE, cached |-> << >>, matPsdSum |-> NoMat,
                 vecPairCsdSum |-> << >>, finalNetwork |-> NewNetwork(nChannels)]

NextCompute ==
    \/ \E seed \in 0..MaxSeed : AppendTrial(seed)
    \/ \E v \in Variants : Call(v)
    \/ \E t \in DOMAIN tpc : TrialComputes(t)

SpecCompute == InitCompute /\ [][NextCompute]_vars

(***************************************************************************)
(* Settings as a caller can set them: m_iNfft is an int and may be 0 or    *)
(* negative, and the trials may have matrices without rows.                *)
(***************************************************************************)
InitAnyConfig ==
    /\ nChannels \in 0..1
    /\ nSamples \in 1..MaxSamples
    /\ m_iNfft \in (0 - MaxNonPositive)..1
    /\ m_sWindowType \in WindowTypes
    /\ m_dataList = << >>
    /\ matPsdSum = NoMat
    /\ vecPairCsdSum = << >>
    /\ finalNetwork = NewNetwork(nChannels)
    /\ vecCoherency = << >>
    /\ pc = "idle"
    /\ variant = "real"
    /\ iNfft = 0 /\ iNRows = 0 /\ iNFreqs = 0
    /\ tapers = [first |-> NoMat, second |-> << >>]
    /\ mutex = Free
    /\ tpc = << >>
    /\ ntask = << >>
    /\ nMerge = << >>
    /\ runs = 0
    /\ ret = "none"
    /\ InitDriver
    /\ atCall = [clean |-> FALSE, cached |-> << >>, matPsdSum |-> NoMat,
                 vecPairCsdSum |-> << >>, finalNetwork |-> NewNetwork(nChannels)]

SpecAnyConfig == InitAnyConfig /\ [][Next]_vars

(***************************************************************************)
(* Trial lists of unequal shape: the caller may append a trial with one    *)
(* channel more than the first trial has.  m_dataList is a public list and *)
(* nothing checks what is appended to it.  compute() reads the rows        *)
(* 0..iNRows-1 of such a trial, which exist.                               *)
(***************************************************************************)
AppendWiderTrial(seed) ==
    /\ pc = "idle"
    /\ runs < MaxRuns
    /\ m_dataList # << >>
    /\ Len(m_dataList) < MaxTrials
    /\ m_dataList' = Append(m_dataList,
                            NewTrial(SampleMatrix(seed, nChannels + 1, nSamples)))
    /\ ret' = "none"
    /\ UNCHANGED <<gusbVars, settingsVars, matPsdSum, vecPairCsdSum, finalNetwork, vecCoherency,
                   pc, variant, localVars, mutex, tpc, ntask, nMerge, runs, atCall>>

InitRagged ==
    /\ nChannels = 1
    /\ nSamples \in 1..MaxSamples
    /\ m_iNfft \in 1..MaxNfft
    /\ m_sWindowType \in WindowTypes
    /\ m_dataList = << >>
    /\ matPsdSum = NoMat
    /\ vecPairCsdSum = << >>
    /\ finalNetwork = NewNetwork(nChannels)
    /\ vecCoherency = << >>
    /\ pc = "idle"
    /\ variant = "real"
    /\ iNfft = 0 /\ iNRows = 0 /\ iNFreqs = 0
    /\ tapers = [first |-> NoMat, second |-> << >>]
    /\ mutex = Free
    /\ tpc = << >>
    /\ ntask = << >>
    /\ nMerge = << >>
    /\ runs = 0
    /\ ret = "none"
    /\ InitDriver
    /\ atCall = [clean |-> FALSE, cached |-> << >>, matPsdSum |-> NoMat,
                 vecPairCsdSum |-> << >>, finalNetwork |-> NewNetwork(nChannels)]

NextRagged ==
    \/ Next
    \/ \E seed \in 0..MaxSeed : AppendWiderTrial(seed)

SpecRagged == InitRagged /\ [][NextRagged]_vars

(***************************************************************************)
(* Helpers of the properties.                                              *)
(***************************************************************************)
Range(q) == {q[n] : n \in DOMAIN q}
Count(q, x) == Cardinality({n \in DOMAIN q : q[n] = x})
Pairs(n) == {<<i, j>> \in (0..(n - 1)) \X (0..(n - 1)) : i <= j}
EdgePair(e) == <<e.src, e.dst>>
\* a call of calculateReal or calculateImag has just come back
GraphCallReturned == pc = "idle" /\ ret = "done" /\ variant # "cplx"

(***************************************************************************)
(* C1: after one call of calculateReal or calculateImag on a non-empty     *)
(* trial list with C channels that found empty accumulators, un-cached     *)
(* trials and a network of C nodes without edges, the edge list of the     *)
(* network holds exactly one edge for every pair (i, j), 0 <= i <= j < C,  *)
(* that is C*(C+1)/2 edges, no pair twice and no edge with source above    *)
(* target.                                                                 *)
(***************************************************************************)
C1_OneEdgePerPair ==
    (GraphCallReturned /\ atCall.clean) =>
        /\ {EdgePair(e) : e \in Range(finalNetwork.edges)} = Pairs(nChannels)
        /\ Len(finalNetwork.edges) = (nChannels * (nChannels + 1)) \div 2
        /\ \A a, b \in DOMAIN finalNetwork.edges :
               EdgePair(finalNetwork.edges[a]) = EdgePair(finalNetwork.edges[b]) => a = b
        /\ \A e \in Range(finalNetwork.edges) : e.src <= e.dst

C1_Witness ==
    /\ GraphCallReturned /\ atCall.clean
    /\ nChannels = MaxChannels
    /\ Len(m_dataList) >= 2
    /\ Len(finalNetwork.edges) >= 3

(***************************************************************************)
(* C2: the merge of compute() is mutually exclusive.  At most one trial    *)
(* task is between mutex.lock() and mutex.unlock(), that task holds the    *)
(* mutex from before its update of matPsdSum until after its update of     *)
(* vecPairCsdSum, and while it is between the two updates no step of any   *)
(* other task changes matPsdSum or vecPairCsdSum.                          *)
(***************************************************************************)
InMerge(t) == tpc[t] \in {"psd", "csd", "unlock"}

C2_MergeExclusive ==
    /\ [](\A t, u \in DOMAIN tpc : (InMerge(t) /\ InMerge(u)) => t = u)
    /\ [](\A t \in DOMAIN tpc : InMerge(t) => mutex = <<"trial", t>>)
    /\ [][\A t \in DOMAIN tpc :
            (tpc[t] = "csd" /\ (matPsdSum' # matPsdSum \/ vecPairCsdSum' # vecPairCsdSum))
                => tpc'[t] = "unlock"]_vars

C2_Witness ==
    \E t, u \in DOMAIN tpc : tpc[t] = "csd" /\ tpc[u] = "lock" /\ matPsdSum # NoMat

(***************************************************************************)
(* C3: in a call that found empty accumulators and un-cached trials of     *)
(* equal shape, whatever the interleaving, after the first barrier         *)
(* matPsdSum is the element-wise sum of the PSD matrices of all trials and *)
(* entry k of vecPairCsdSum the element-wise sum of entry k of every       *)
(* trial's CSD list; the sum taken in list order and the sum taken in      *)
(* reversed list order are both that value.                                *)
(***************************************************************************)
RECURSIVE SumForward(_)
SumForward(q) ==
    IF Len(q) = 1 THEN q[1] ELSE VAdd(SumForward(SubSeq(q, 1, Len(q) - 1)), q[Len(q)])

RECURSIVE SumReversed(_)
SumReversed(q) ==
    IF Len(q) = 1 THEN q[1] ELSE VAdd(SumReversed(Tail(q)), q[1])

SumsAre(Sum(_)) ==
    /\ matPsdSum.rows = nChannels /\ matPsdSum.cols = iNFreqs
    /\ \A i \in 0..(nChannels - 1), f \in 0..(iNFreqs - 1) :
           matPsdSum.e[i][f] =
               Lift(Sum([t \in DOMAIN m_dataList |-> m_dataList[t].matPsd.e[i][f]]))
    /\ Len(vecPairCsdSum) = nChannels
    /\ \A k \in 1..nChannels :
        /\ vecPairCsdSum[k].first = k - 1
        /\ vecPairCsdSum[k].second.rows = nChannels
        /\ vecPairCsdSum[k].second.cols = iNFreqs
        /\ \A j \in 0..(nChannels - 1), f \in 0..(iNFreqs - 1) :
               vecPairCsdSum[k].second.e[j][f] =
                   Lift(Sum([t \in DOMAIN m_dataList |->
                                m_dataList[t].vecPairCsd[k].second.e[j][f]]))

C3_SumOfAllTrials ==
    (pc = "sqrt" /\ atCall.clean) =>
        /\ SumsAre(SumForward)
        /\ SumsAre(SumReversed)
        /\ \A t \in DOMAIN nMerge : nMerge[t] = 1

C3_Witness ==
    /\ pc = "sqrt" /\ atCall.clean
    /\ Len(m_dataList) = 2
    /\ m_dataList[1].matData # m_dataList[2].matData
    /\ nChannels = 2 /\ nSamples = 2
    /\ \E f \in 0..(iNFreqs - 1) :
           m_dataList[1].vecPairCsd[1].second.e[1][f] # VZero(iNfft)

(***************************************************************************)
(* C4: the square root of matPsdSum and every normalization task start     *)
(* only when all trial tasks of the call have finished, no normalization   *)
(* task is under way (so none reads matPsdSum or vecPairCsdSum) while a    *)
(* trial task is still running, and the call comes back only when all      *)
(* normalization tasks have finished.                                      *)
(***************************************************************************)
TrialRunning(t) == tpc[t] # "done"
NormRunning(k) == ntask[k].pc # "done"

C4_Barriers ==
    /\ pc \in {"sqrt", "map2"} => \A t \in DOMAIN tpc : ~TrialRunning(t)
    /\ ntask # << >> => \A t \in DOMAIN tpc : ~TrialRunning(t)
    /\ (pc = "idle" /\ ret = "done") =>
           /\ \A t \in DOMAIN tpc : ~TrialRunning(t)
           /\ \A k \in DOMAIN ntask : ~NormRunning(k)
    /\ (\E k \in DOMAIN ntask : NormRunning(k)) => pc = "map2"
    /\ (\E t \in DOMAIN tpc : TrialRunning(t)) => pc = "map1"

C4_Witness ==
    /\ pc = "map2"
    /\ Len(m_dataList) = 2
    /\ \E k, l \in DOMAIN ntask : ntask[k].pc = "node_j" /\ ntask[l].pc = "start"

(***************************************************************************)
(* C5: the three appends of an edge are atomic with respect to the mutex.  *)
(* Whenever the mutex is not held, every edge that is in one of the lists  *)
(* (the adjacency list of a node, the edge list of the network) is in the  *)
(* adjacency lists of both its end nodes and in the edge list of the       *)
(* network; at most one normalization task is between its lock and its     *)
(* unlock, and it holds the mutex there.                                   *)
(***************************************************************************)
Attaching(k) == ntask[k].pc \in {"node_i", "node_j", "net", "unlock"}
AllEdges ==
    Range(finalNetwork.edges) \cup
    UNION {Range(finalNetwork.nodes[c]) : c \in DOMAIN finalNetwork.nodes}

C5_AttachAtomic ==
    /\ mutex = Free =>
           \A e \in AllEdges :
               /\ e \in Range(finalNetwork.nodes[e.src])
               /\ e \in Range(finalNetwork.nodes[e.dst])
               /\ e \in Range(finalNetwork.edges)
    /\ \A k, l \in DOMAIN ntask : (Attaching(k) /\ Attaching(l)) => k = l
    /\ \A k \in DOMAIN ntask : Attaching(k) => mutex = <<"norm", k>>

C5_Witness ==
    /\ mutex = Free
    /\ pc = "map2"
    /\ Len(finalNetwork.edges) = 1
    /\ \E k, l \in DOMAIN ntask : k # l /\ ntask[k].pc = "loop" /\ ntask[l].pc = "loop"
                                   /\ ntask[k].j < ntask[k].matCohy.rows
                                   /\ ntask[l].j < ntask[l].matCohy.rows

(***************************************************************************)
(* C6: over any sequence of calls on one ConnectivitySettings object, with *)
(* trials unchanged or appended between calls, the matPsdSum that the      *)
(* normalization tasks read is the element-wise square root, taken once,   *)
(* of the sum of the PSD matrices of all trials of the list.               *)
(***************************************************************************)
SqrtOfSum ==
    Mat(nChannels, iNFreqs,
        LAMBDA i, f : TSqrt(Lift(SumForward([t \in DOMAIN m_dataList |->
                                                m_dataList[t].matPsd.e[i][f]]))))

C6_SquareRootOnce == pc = "map2" => matPsdSum = SqrtOfSum

(***************************************************************************)
(* C7 as claimed: every trial task that has completed has merged exactly   *)
(* once in this call, the tasks of already cached trials included.         *)
(***************************************************************************)
C7_EveryTaskMergesOnce ==
    \A t \in DOMAIN tpc : tpc[t] = "done" => nMerge[t] = 1

(***************************************************************************)
(* C7 as amended: a trial task that has completed has merged exactly once  *)
(* if its trial was not cached with the channel and bin counts of the call *)
(* when the call was made, and has not merged at all if it was; no task    *)
(* merges more than once.                                                  *)
(***************************************************************************)
C7_UncachedTaskMergesOnce ==
    \A t \in DOMAIN tpc :
        /\ nMerge[t] <= 1
        /\ tpc[t] = "done" => nMerge[t] = IF atCall.cached[t] THEN 0 ELSE 1

C7_Witness ==
    /\ pc = "sqrt"
    /\ Len(m_dataList) = 2
    /\ atCall.cached[1] /\ ~atCall.cached[2]
    /\ nMerge[1] = 0 /\ nMerge[2] = 1

(***************************************************************************)
(* C8: a call of calculate, calculateReal or calculateImag on an empty     *)
(* trial list comes back at once: no trial task and no normalization task  *)
(* exists, matPsdSum, vecPairCsdSum, the output vector and the network are *)
(* what they were, and the network has no edge.                            *)
(***************************************************************************)
C8_EmptyListReturns ==
    [][(m_dataList = << >> /\ runs' # runs) =>
           /\ ret' = "empty" /\ pc' = "idle"
           /\ tpc' = << >> /\ ntask' = << >>
           /\ Len(finalNetwork'.edges) = 0
           /\ UNCHANGED <<matPsdSum, vecPairCsdSum, vecCoherency, finalNetwork,
                          m_dataList>>]_vars

C8_Witness ==
    /\ ret = "empty" /\ runs = MaxRuns /\ pc = "idle"
    /\ m_dataList = << >>
    /\ Len(finalNetwork.edges) = 0

(***************************************************************************)
(* C9: during a call and when it has come back, with iNfft the effective   *)
(* FFT length of the call, the bin count of the call, every row of every   *)
(* trial's matPsd and of every matrix of its vecPairCsd, every row of      *)
(* matPsdSum and of every matrix of vecPairCsdSum, and the weight vector   *)
(* of every edge have floor(iNfft / 2) + 1 entries.                        *)
(***************************************************************************)
HasBins(mat, n) ==
    /\ mat.cols = n
    /\ \A i \in DOMAIN mat.e : Cardinality(DOMAIN mat.e[i]) = n

C9_HalfSpectrumBins ==
    (pc # "idle" \/ ret = "done") =>
        LET bins == (iNfft \div 2) + 1
        IN  /\ iNFreqs = bins
            /\ \A t \in DOMAIN m_dataList :
                   /\ m_dataList[t].matPsd # NoMat => HasBins(m_dataList[t].matPsd, bins)
                   /\ \A k \in DOMAIN m_dataList[t].vecPairCsd :
                          HasBins(m_dataList[t].vecPairCsd[k].second, bins)
            /\ matPsdSum # NoMat => HasBins(matPsdSum, bins)
            /\ \A k \in DOMAIN vecPairCsdSum : HasBins(vecPairCsdSum[k].second, bins)
            /\ \A k \in DOMAIN vecCoherency : HasBins(vecCoherency[k].second, bins)
            /\ \A e \in AllEdges : Cardinality(DOMAIN e.w) = bins
            /\ \A k \in DOMAIN ntask :
                   ntask[k].pEdge # NoEdge => Cardinality(DOMAIN ntask[k].pEdge.w) = bins

C9_Witness ==
    /\ GraphCallReturned
    /\ iNfft = 3 /\ iNFreqs = 2
    /\ Len(m_dataList) = 2
    /\ Len(finalNetwork.edges) >= 3
    /\ \A e \in AllEdges : Cardinality(DOMAIN e.w) = 2

(***************************************************************************)
(* C10: the FFT length of a call is the larger of m_iNfft and the number   *)
(* of samples of the first trial, so it is the number of samples when      *)
(* m_iNfft is smaller and m_iNfft otherwise, and no trial of the call has  *)
(* more samples than it; m_iNfft itself is never changed.                  *)
(***************************************************************************)
C10_EffectiveNfft ==
    /\ [](pc # "idle" =>
            LET iSignalLength == m_dataList[1].matData.cols
            IN  /\ iNfft = IF m_iNfft > iSignalLength THEN m_iNfft ELSE iSignalLength
                /\ \A t \in DOMAIN m_dataList : iNfft >= m_dataList[t].matData.cols)
    /\ [][m_iNfft' = m_iNfft]_vars

C10_Witness ==
    /\ pc = "map2"
    /\ m_iNfft < m_dataList[1].matData.cols
    /\ iNfft = m_dataList[1].matData.cols
    /\ \A t \in DOMAIN m_dataList : m_dataList[t].matPsd # NoMat

(***************************************************************************)
(* C11: a task of compute() that finds its trial with iNRows CSD entries   *)
(* and an iNRows x iNFreqs matPsd ends without changing the trial: the     *)
(* stored matPsd and vecPairCsd are what they were, in every call that     *)
(* finds the trial so.                                                     *)
(***************************************************************************)
C11_CachedTrialUntouched ==
    [][\A t \in DOMAIN tpc :
          (/\ tpc[t] = "start"
           /\ tpc'[t] # "start"
           /\ Len(m_dataList[t].vecPairCsd) = iNRows
           /\ m_dataList[t].matPsd.rows = iNRows
           /\ m_dataList[t].matPsd.cols = iNFreqs)
          => (tpc'[t] = "done" /\ m_dataList'[t] = m_dataList[t])]_vars

C11_Witness ==
    /\ pc = "map1" /\ runs = 2
    /\ \E t \in DOMAIN tpc :
           /\ tpc[t] = "done" /\ nMerge[t] = 0
           /\ Len(m_dataList[t].vecPairCsd) = iNRows
           /\ m_dataList[t].matPsd.rows = iNRows
           /\ m_dataList[t].matPsd.cols = iNFreqs
           /\ iNRows = MaxChannels

(***************************************************************************)
(* C12: a second call of the same function on the same settings, with the  *)
(* trials unchanged (every trial is found cached), gives what the first    *)
(* call gave.  With the same network passed to both calls the edges of     *)
(* both are in it: the edge the second call made for a pair has the weight *)
(* of the edge the first call made for it.  For calculate, what the second *)
(* call is about to copy into vecCoherency is what the first call left     *)
(* there.                                                                  *)
(***************************************************************************)
MadeInCall(e, r) == e.id[1] = r
SameTransform(e1, e2) ==
    \A f \in DOMAIN e1.w : f \in DOMAIN e2.w /\ e1.w[f][1] = e2.w[f][1]

C12_SecondCallSameResult ==
    (runs = 2 /\ pc = "map2" /\ NormsFinished
        /\ \A t \in DOMAIN m_dataList : atCall.cached[t]) =>
        /\ variant # "cplx" =>
               \A e1, e2 \in Range(finalNetwork.edges) :
                   (/\ MadeInCall(e1, 1) /\ MadeInCall(e2, 2)
                    /\ EdgePair(e1) = EdgePair(e2)
                    /\ SameTransform(e1, e2)) => e1.w = e2.w
        /\ (variant = "cplx" /\ vecCoherency # << >>) => vecPairCsdSum = vecCoherency

(***************************************************************************)
(* C13: a call that found empty accumulators and N un-cached trials that   *)
(* all hold the same sample matrix gives, for every pair and every bin,    *)
(* the number that a call over one such trial gives: the CSD of the one    *)
(* trial divided by the product of the square roots of its PSD rows.  Two  *)
(* quotients c1 / sqrt(r1) and c2 / sqrt(r2) are the same number when      *)
(* both are Undefined, both are 0, or c2 = k * c1 and r2 = k * k * r1 for  *)
(* a rational k > 0.                                                       *)
(***************************************************************************)
\* a term a or sqrt(a) with a rational a
IsRoot(A) ==
    /\ Len(A) \in {1, 2}
    /\ A[1][1] = "add"
    /\ \A m \in DOMAIN A[1][2] : m # 0 => A[1][2][m] = RZero
    /\ Len(A) = 2 => A[2] = <<"sqrt">>

\* the rational whose square root the term is
Radicand(A) == IF Len(A) = 1 THEN RMul(A[1][2][0], A[1][2][0]) ELSE A[1][2][0]

SameNumber(q1, q2) ==
    IF q1 = Undefined \/ q2 = Undefined \/ IsZero(q1) \/ IsZero(q2) THEN q1 = q2
    ELSE /\ Len(q1) = 2 /\ Len(q2) = 2
         /\ q1[1][1] = "add" /\ q2[1][1] = "add"
         /\ q1[2][1] = "quot" /\ q2[2][1] = "quot"
         /\ IsRoot(q1[2][2]) /\ IsRoot(q1[2][3]) /\ IsRoot(q2[2][2]) /\ IsRoot(q2[2][3])
         /\ LET c1 == q1[1][2]
                c2 == q2[1][2]
                r1 == RMul(Radicand(q1[2][2]), Radicand(q1[2][3]))
                r2 == RMul(Radicand(q2[2][2]), Radicand(q2[2][3]))
                m  == CHOOSE m \in DOMAIN c1 : c1[m] # RZero
                k  == RDiv(c2[m], c1[m])
            IN  /\ k[1] > 0
                /\ c2 = VScale(c1, k)
                /\ r2 = RMul(RMul(k, k), r1)

\* what a call over the first trial alone gives for the pair (i, j) in bin f
SingleTrialCohy(i, j, f) ==
    TQuot(Lift(m_dataList[1].vecPairCsd[i + 1].second.e[j][f]),
          TSqrt(Lift(m_dataList[1].matPsd.e[i][f])),
          TSqrt(Lift(m_dataList[1].matPsd.e[j][f])))

SameTrials == \A t \in DOMAIN m_dataList : m_dataList[t].matData = m_dataList[1].matData

C13_TrialCountInvariance ==
    (pc = "idle" /\ ret = "done" /\ atCall.clean /\ SameTrials) =>
        /\ variant # "cplx" =>
               \A e \in Range(finalNetwork.edges) : \A f \in DOMAIN e.w :
                   SameNumber(SingleTrialCohy(e.src, e.dst, f), e.w[f][2])
        /\ variant = "cplx" =>
               \A k \in DOMAIN vecCoherency : \A j \in 0..(iNRows - 1) :
                   \A f \in 0..(iNFreqs - 1) :
                       SameNumber(SingleTrialCohy(k - 1, j, f),
                                  vecCoherency[k].second.e[j][f])

C13_Witness ==
    /\ pc = "idle" /\ ret = "done" /\ atCall.clean /\ SameTrials
    /\ Len(m_dataList) = 2
    /\ variant # "cplx"
    /\ \E e \in Range(finalNetwork.edges) : \E f \in DOMAIN e.w :
           /\ e.src # e.dst
           /\ e.w[f][2] # Undefined /\ ~IsZero(e.w[f][2])
           /\ e.w[f][2] # SingleTrialCohy(e.src, e.dst, f)

(***************************************************************************)
(* C14: in every PSD row of a trial and in every CSD row that compute()    *)
(* writes for a pair i <= j, bin 0 is half the sum over the tapers divided *)
(* by the weight norm, the last bin is half of it if iNfft is even and the *)
(* whole of it if iNfft is odd, and every other bin is the whole of it.    *)
(***************************************************************************)
\* the sum over the tapers divided by the weight norm, before any halving
UnhalvedCsd(matData, i, j, f) ==
    LET si == TapSpectrum(matData, tapers, iNfft, i)
        sj == TapSpectrum(matData, tapers, iNfft, j)
    IN  VScale(VSum(LAMBDA k : VMul(si[k][f], VConj(sj[k][f])), tapers.first.rows, iNfft),
               RDiv(RInt(2), WeightNorm2(tapers)))

Halving(f) ==
    IF f = 0 \/ (f = (iNfft \div 2) /\ iNfft % 2 = 0) THEN <<1, 2>> ELSE <<1, 1>>

C14_HalfSpectrumHalving ==
    \A t \in DOMAIN m_dataList :
        LET d == m_dataList[t]
        IN  d.matPsd # NoMat =>
                \A i \in 0..(iNRows - 1) : \A f \in 0..(iNfft \div 2) :
                    /\ d.matPsd.e[i][f] = VScale(UnhalvedCsd(d.matData, i, i, f), Halving(f))
                    /\ \A j \in i..(iNRows - 1) :
                           d.vecPairCsd[i + 1].second.e[j][f] =
                               VScale(UnhalvedCsd(d.matData, i, j, f), Halving(f))

C14_Witness ==
    /\ iNfft = 4 /\ nSamples = 4 /\ nChannels = 2
    /\ Len(m_dataList) = 1 /\ m_dataList[1].matPsd # NoMat
    /\ \A f \in 0..2 :
           /\ UnhalvedCsd(m_dataList[1].matData, 0, 0, f) # VZero(iNfft)
           /\ UnhalvedCsd(m_dataList[1].matData, 0, 1, f) # VZero(iNfft)

(***************************************************************************)
(* C15: a call on settings with a non-positive m_iNfft or with trials of   *)
(* zero channels is turned down before any task exists: it comes back      *)
(* with an error, and the accumulators, the output vector and the network  *)
(* are what they were.                                                     *)
(***************************************************************************)
BadConfig == m_iNfft <= 0 \/ nChannels = 0

C15_BadConfigRejected ==
    [][(BadConfig /\ m_dataList # << >> /\ runs' # runs) =>
           /\ ret' = "error" /\ pc' = "idle"
           /\ \A t \in DOMAIN tpc' : tpc'[t] # "start"
           /\ UNCHANGED <<matPsdSum, vecPairCsdSum, vecCoherency, finalNetwork>>]_vars

(***************************************************************************)
(* C16: a call on a list in which a trial has another channel count or     *)
(* sample count than the first trial fails as a whole: the task of such a  *)
(* trial merges nothing, the call makes no edge and does not come back as  *)
(* done.                                                                   *)
(***************************************************************************)
Mismatched(t) ==
    \/ m_dataList[t].matData.rows # m_dataList[1].matData.rows
    \/ m_dataList[t].matData.cols # m_dataList[1].matData.cols

C16_RaggedCallFails ==
    (\E t \in DOMAIN m_dataList : Mismatched(t)) =>
        /\ ret # "done"
        /\ pc # "idle" =>
               /\ \A t \in DOMAIN tpc : Mismatched(t) => nMerge[t] = 0
               /\ \A e \in AllEdges : ~MadeInCall(e, runs)

(***************************************************************************)
(* C17: between the square root and the second barrier, in calculate,      *)
(* calculateReal and calculateImag alike, no step of a normalization task  *)
(* changes matPsdSum or an entry of vecPairCsdSum.                         *)
(***************************************************************************)
C17_SumsFrozen ==
    [][(pc = "map2" /\ pc' = "map2") => UNCHANGED <<matPsdSum, vecPairCsdSum>>]_vars

(***************************************************************************)
(* C18: what a call of calculateReal or calculateImag leaves is a function *)
(* of what it found (the accumulators, the trials and the network when it  *)
(* was made) in which the function called shows only in the transform of   *)
(* the weights.  matPsdSum is the square root of the found matPsdSum       *)
(* merged with the PSD of every trial that was not cached, vecPairCsdSum   *)
(* the found one merged with their CSD; the network is the found network   *)
(* with one new edge for every entry k and row j >= k.first, each in the   *)
(* lists of its two nodes; and the weight of the edge is the quotient row, *)
(* as magnitude for calculateReal and as imaginary part for calculateImag. *)
(* So the two functions, made on the same settings and network, leave the  *)
(* same sums, the same pairs and the same attachment.                      *)
(***************************************************************************)
RECURSIVE PsdAfterTrials(_)
PsdAfterTrials(n) ==
    IF n = 0 THEN atCall.matPsdSum
    ELSE IF atCall.cached[n] THEN PsdAfterTrials(n - 1)
    ELSE MergePsd(PsdAfterTrials(n - 1), m_dataList[n].matPsd)

RECURSIVE CsdAfterTrials(_)
CsdAfterTrials(n) ==
    IF n = 0 THEN atCall.vecPairCsdSum
    ELSE IF atCall.cached[n] THEN CsdAfterTrials(n - 1)
    ELSE MergeCsd(CsdAfterTrials(n - 1), m_dataList[n].vecPairCsd)

C18_SameButTransform ==
    GraphCallReturned =>
        LET psd == cwiseSqrt(PsdAfterTrials(Len(m_dataList)))
            csd == CsdAfterTrials(Len(m_dataList))
            old == atCall.finalNetwork
            new == {finalNetwork.edges[n] : n \in (Len(old.edges) + 1)..Len(finalNetwork.edges)}
            transform == IF variant = "real" THEN "abs" ELSE "imag"
        IN  /\ matPsdSum = psd
            /\ vecPairCsdSum = csd
            /\ SubSeq(finalNetwork.edges, 1, Len(old.edges)) = old.edges
            /\ {EdgePair(e) : e \in new} =
                   {<<csd[k].first, j>> : k \in DOMAIN csd, j \in 0..(iNRows - 1)}
                       \cap Pairs(iNRows)
            /\ Cardinality(new) = Len(finalNetwork.edges) - Len(old.edges)
            /\ Cardinality(new) = Cardinality({EdgePair(e) : e \in new})
            /\ \A e \in new : \A f \in 0..(iNFreqs - 1) :
                   e.w[f] = <<transform, Quotient(csd[e.src + 1], psd).e[e.dst][f]>>
            /\ \A c \in DOMAIN finalNetwork.nodes :
                   /\ Range(finalNetwork.nodes[c]) =
                          Range(old.nodes[c]) \cup {e \in new : e.src = c \/ e.dst = c}
                   /\ SubSeq(finalNetwork.nodes[c], 1, Len(old.nodes[c])) = old.nodes[c]

C18_Witness ==
    /\ GraphCallReturned /\ variant = "imag" /\ runs = 2
    /\ nChannels = 2
    /\ Len(atCall.finalNetwork.edges) = 3
    /\ Len(finalNetwork.edges) = 6
    /\ atCall.cached = <<TRUE, FALSE>>

(***************************************************************************)
(* C19: after every call of calculateReal or calculateImag, whatever calls *)
(* were made before on the same network, the network holds exactly one     *)
(* edge for every pair (i, j), i <= j, and no pair twice.                  *)
(***************************************************************************)
C19_OneEdgePerPairAfterCalls ==
    GraphCallReturned =>
        /\ {EdgePair(e) : e \in Range(finalNetwork.edges)} = Pairs(nChannels)
        /\ \A a, b \in DOMAIN finalNetwork.edges :
               a # b => EdgePair(finalNetwork.edges[a]) # EdgePair(finalNetwork.edges[b])

(***************************************************************************)
(* C20: a call changes no sample matrix, not the tapers it made, not       *)
(* m_iNfft and not m_sWindowType, and it adds no trial and removes none.   *)
(* The only field of a trial that changes is its cache (matPsd and         *)
(* vecPairCsd), and only in a step of the task of that very trial, which   *)
(* changes no other trial.                                                 *)
(***************************************************************************)
C20_InputsUntouched ==
    [][(pc # "idle" \/ runs' # runs) =>
           /\ m_iNfft' = m_iNfft /\ m_sWindowType' = m_sWindowType
           /\ pc # "idle" => tapers' = tapers
           /\ Len(m_dataList') = Len(m_dataList)
           /\ \A t \in DOMAIN m_dataList :
                  /\ m_dataList'[t].matData = m_dataList[t].matData
                  /\ m_dataList'[t] # m_dataList[t] =>
                         /\ tpc[t] = "start" /\ tpc'[t] = "lock"
                         /\ \A u \in DOMAIN m_dataList \ {t} :
                                m_dataList'[u] = m_dataList[u] /\ tpc'[u] = tpc[u]]_vars

C20_Witness ==
    /\ pc = "map1"
    /\ Len(m_dataList) = 2
    /\ tpc = <<"start", "lock">>
    /\ m_dataList[1] = NewTrial(m_dataList[1].matData)
    /\ m_dataList[2].matPsd # NoMat
    /\ m_dataList[2].matData = SampleMatrix(1, nChannels, nSamples)
    /\ nSamples = 2

(***************************************************************************)
(* The accesses to shared objects that the next step of each thread makes. *)
(* An access is <<object, "r" or "w">>; the threads are the trial tasks,   *)
(* the normalization tasks and the calling thread, named as the mutex      *)
(* names its holder.                                                       *)
(***************************************************************************)
Caller == <<"caller", 0>>
Threads ==
    {<<"trial", t>> : t \in DOMAIN tpc} \cup {<<"norm", k>> : k \in DOMAIN ntask}
        \cup {Caller}

TrialAccesses(t) ==
    CASE tpc[t] = "start" ->
             {<<<<"trial", t>>, IF AlreadyComputed(m_dataList[t]) THEN "r" ELSE "w">>}
      [] tpc[t] = "psd" -> {<<<<"psdSum">>, "w">>, <<<<"trial", t>>, "r">>}
      [] tpc[t] = "csd" ->
             {<<<<"csdSum", k>>, "w">> :
                  k \in 1..(Len(vecPairCsdSum) + Len(m_dataList[t].vecPairCsd))}
                 \cup {<<<<"trial", t>>, "r">>}
      [] OTHER -> {}

NormAccesses(k) ==
    CASE ntask[k].pc = "start" ->
             {<<<<"csdSum", k>>, IF variant = "cplx" THEN "w" ELSE "r">>,
              <<<<"psdSum">>, "r">>}
      [] ntask[k].pc = "node_i" -> {<<<<"node", ntask[k].pEdge.src>>, "w">>}
      [] ntask[k].pc = "node_j" -> {<<<<"node", ntask[k].pEdge.dst>>, "w">>}
      [] ntask[k].pc = "net" -> {<<<<"edges">>, "w">>}
      [] OTHER -> {}

CallerAccesses ==
    CASE pc = "sqrt" ->
             {<<<<"psdSum">>, "w">>} \cup
                 {<<<<"csdSum", k>>, "r">> : k \in DOMAIN vecPairCsdSum}
      [] pc = "map2" /\ NormsFinished /\ variant = "cplx" ->
             {<<<<"csdSum", k>>, "r">> : k \in DOMAIN vecPairCsdSum}
      [] OTHER -> {}

Accesses(th) ==
    CASE th[1] = "trial" -> TrialAccesses(th[2])
      [] th[1] = "norm" -> NormAccesses(th[2])
      [] OTHER -> CallerAccesses

Conflict(x, y) == x[1] = y[1] /\ "w" \in {x[2], y[2]}

(***************************************************************************)
(* C21: data-race freedom.  In every call of calculate, calculateReal and  *)
(* calculateImag no two threads are at the same time about to access the   *)
(* same shared object (psdSum, an entry of csdSum, a node's edge list, the *)
(* edge list of the network, a trial's cached result), one of them         *)
(* writing, unless both accesses are made holding the mutex of the call.   *)
(***************************************************************************)
C21_NoDataRace ==
    \A a \in Threads : \A b \in Threads \ {a} :
        \A x \in Accesses(a) : \A y \in Accesses(b) :
            Conflict(x, y) => (mutex = a /\ mutex = b)

\* a trial task writes psdSum under the mutex while another task waits for the
\* mutex and a third thread, the caller, waits at the barrier
C21_Witness ==
    /\ pc = "map1"
    /\ \E t1 \in DOMAIN tpc : \E t2 \in DOMAIN tpc :
           /\ tpc[t1] = "psd" /\ mutex = <<"trial", t1>>
           /\ tpc[t2] = "lock"
           /\ <<<<"psdSum">>, "w">> \in Accesses(<<"trial", t1>>)

(***************************************************************************)
(* Fair scheduling.  QtConcurrent::map runs every task it was given on a   *)
(* thread of the pool, and the calling thread goes on when its wait is     *)
(* over: each task and the caller's part of the call take their next step  *)
(* if it stays possible.  Nothing is assumed about the callers of the      *)
(* three functions.                                                        *)
(***************************************************************************)
\* the steps of a trial task but TrialComputes(t), for which see
\* ComputeScheduled(t)
TrialStep(t) ==
    /\ t \in DOMAIN tpc
    /\ \/ TrialReturnsEarly(t)
       \/ TrialLocks(t)
       \/ TrialMergesPsd(t)
       \/ TrialMergesCsd(t)
       \/ TrialUnlocks(t)

NormStep(k) ==
    /\ k \in DOMAIN ntask
    /\ \/ NormComplex(k)
       \/ NormStarts(k)
       \/ NormLocks(k)
       \/ NormAppendsToSource(k)
       \/ NormAppendsToTarget(k)
       \/ NormAppendsToNetwork(k)
       \/ NormUnlocks(k)
       \/ NormReturns(k)

CallerStep == WaitForTrials \/ SquareRoot \/ Return

\* the step of TrialComputes(t) as the scheduler sees it: possible when the
\* task is at its start with a trial that is not cached, and taking the task
\* to its lock.  TrialComputes(t) is the one step of Next that does this.
ComputeScheduled(t) ==
    /\ t \in DOMAIN tpc
    /\ tpc[t] = "start"
    /\ ~AlreadyComputed(m_dataList[t])
    /\ tpc' = [tpc EXCEPT ![t] = "lock"]

FairScheduling ==
    /\ \A t \in 1..MaxTrials : WF_vars(TrialStep(t)) /\ WF_tpc(ComputeScheduled(t))
    /\ \A k \in 1..MaxChannels : WF_vars(NormStep(k))
    /\ WF_vars(CallerStep)

\* settings with trials of MaxSamples samples and the hanning window: no
\* guard of a step reads a sample, a taper or a bin
InitFair ==
    /\ nChannels \in 1..MaxChannels
    /\ nSamples = MaxSamples
    /\ m_iNfft \in 1..MaxNfft
    /\ m_sWindowType = "hanning"
    /\ m_dataList = << >>
    /\ matPsdSum = NoMat
    /\ vecPairCsdSum = << >>
    /\ finalNetwork = NewNetwork(nChannels)
    /\ vecCoherency = << >>
    /\ pc = "idle"
    /\ variant = "real"
    /\ iNfft = 0 /\ iNRows = 0 /\ iNFreqs = 0
    /\ tapers = [first |-> NoMat, second |-> << >>]
    /\ mutex = Free
    /\ tpc = << >>
    /\ ntask = << >>
    /\ nMerge = << >>
    /\ runs = 0
    /\ ret = "none"
    /\ InitDriver
    /\ atCall = [clean |-> FALSE, cached |-> << >>, matPsdSum |-> NoMat,
                 vecPairCsdSum |-> << >>, finalNetwork |-> NewNetwork(nChannels)]

SpecFair == InitFair /\ [][Next]_vars /\ FairScheduling

\* the holder of the mutex is between its lock() and its unlock(), where no
\* step waits for anything
HolderGoesOn ==
    /\ \A t \in DOMAIN tpc :
           mutex = <<"trial", t>> =>
               /\ tpc[t] \in {"psd", "csd", "unlock"}
               /\ ENABLED TrialStep(t)
    /\ \A k \in DOMAIN ntask :
           mutex = <<"norm", k>> =>
               /\ ntask[k].pc \in {"node_i", "node_j", "net", "unlock"}
               /\ ENABLED NormStep(k)

\* a finished task holds no mutex, whichever way it returned
FinishedHoldsNothing ==
    /\ \A t \in DOMAIN tpc : tpc[t] = "done" => mutex # <<"trial", t>>
    /\ \A k \in DOMAIN ntask : ntask[k].pc = "done" => mutex # <<"norm", k>>

(***************************************************************************)
(* C22: every call terminates without deadlock.  Under fair scheduling a   *)
(* call that was made returns, so that every trial task and every          *)
(* normalization task finishes; a mutex that is held is released by its    *)
(* holder; the holder of the mutex never waits; a task that has finished,  *)
(* the early return of a cached trial included, holds no mutex; and the    *)
(* mutex is free when the call has returned.                               *)
(***************************************************************************)
C22_Terminates ==
    /\ [](HolderGoesOn /\ FinishedHoldsNothing /\ (pc = "idle" => mutex = Free))
    /\ (pc # "idle") ~> (pc = "idle" /\ ret = "done" /\ TrialsFinished /\ NormsFinished)
    /\ (mutex # Free) ~> (mutex = Free)

\* a second call has returned whose trial tasks all took the early return of
\* a cached trial, after a first call whose tasks took the lock
C22_Witness ==
    /\ pc = "idle" /\ ret = "done" /\ runs = 2 /\ variant # "cplx"
    /\ Len(m_dataList) = 2
    /\ \A t \in DOMAIN tpc : atCall.cached[t] /\ tpc[t] = "done" /\ nMerge[t] = 0
    /\ mutex = Free
    /\ Len(finalNetwork.edges) > 0

(***************************************************************************)
(* C23: after a call of calculateReal or calculateImag with C channels on  *)
(* a network without edges, the list of every node k holds exactly the C   *)
(* edges that touch k, each of them once; the edge of the pair (k, k) is   *)
(* in the list of k once.                                                  *)
(***************************************************************************)
C23_NodeListsExact ==
    (GraphCallReturned /\ atCall.finalNetwork = NewNetwork(iNRows) /\ atCall.clean) =>
        \A k \in DOMAIN finalNetwork.nodes :
            /\ Len(finalNetwork.nodes[k]) = iNRows
            /\ \A e \in Range(finalNetwork.edges) :
                   Count(finalNetwork.nodes[k], e) = IF k \in {e.src, e.dst} THEN 1 ELSE 0

(***************************************************************************)
(* Settings that are used again with another FFT length.  m_iNfft is a     *)
(* public field of ConnectivitySettings and the caller may set it between  *)
(* two calls.  A merge whose operands differ in shape is outside what      *)
(* Eigen defines: a build with assertions stops the process there, a build *)
(* without them goes on with values that nothing determines.               *)
(***************************************************************************)
SetNfft(n) ==
    /\ pc = "idle"
    /\ runs < MaxRuns
    /\ runs > 0
    /\ n # m_iNfft
    /\ m_iNfft' = n
    /\ ret' = "none"
    /\ UNCHANGED <<gusbVars, nChannels, nSamples, m_sWindowType, m_dataList, matPsdSum,
                   vecPairCsdSum, finalNetwork, vecCoherency, pc, variant, localVars,
                   mutex, tpc, ntask, nMerge, runs, atCall>>

\* eigen_assert fails in matPsdSum += inputData.matPsd or in the += of a CSD
\* entry: the process is gone, and every thread with it
TrialMergeAborts(t) ==
    /\ IF tpc[t] = "psd" THEN ~PsdMergeDefined(t)
                          ELSE tpc[t] = "csd" /\ ~CsdMergeDefined(t)
    /\ pc' = "aborted"
    /\ ret' = "aborted"
    /\ tpc' = [u \in DOMAIN tpc |-> "aborted"]
    /\ UNCHANGED <<gusbVars, settingsVars, m_dataList, matPsdSum, vecPairCsdSum, finalNetwork,
                   vecCoherency, variant, localVars, mutex, ntask, nMerge, runs, atCall>>

\* what an unchecked += leaves in the sum: its shape is kept; a bin is either
\* garbage, or the sum where the operand has the bin and garbage where not
UncheckedSum(sum, mat, o) ==
    [rows |-> sum.rows, cols |-> sum.cols,
     e |-> [i \in 0..(sum.rows - 1) |-> [f \in 0..(sum.cols - 1) |->
               IF o = "aligned" /\ i < mat.rows /\ f < mat.cols
               THEN TAdd(sum.e[i][f], mat.e[i][f])
               ELSE Undefined]]]

UncheckedOutcomes == {"aligned", "garbage"}

\* matPsdSum += inputData.matPsd without the assertion
TrialMergesPsdUnchecked(t) ==
    /\ tpc[t] = "psd"
    /\ ~PsdMergeDefined(t)
    /\ \E o \in UncheckedOutcomes :
           matPsdSum' = UncheckedSum(matPsdSum, m_dataList[t].matPsd, o)
    /\ tpc' = [tpc EXCEPT ![t] = "csd"]
    /\ UNCHANGED <<gusbVars, settingsVars, m_dataList, vecPairCsdSum, finalNetwork, vecCoherency,
                   pc, variant, localVars, mutex, ntask, nMerge, runs, ret, atCall>>

\* vecPairCsdAvg[j].second += inputData.vecPairCsd.at(j).second without the
\* assertions
TrialMergesCsdUnchecked(t) ==
    /\ tpc[t] = "csd"
    /\ ~CsdMergeDefined(t)
    /\ \E o \in UncheckedOutcomes :
           vecPairCsdSum' = [j \in DOMAIN vecPairCsdSum |->
               [first |-> vecPairCsdSum[j].first,
                second |-> UncheckedSum(vecPairCsdSum[j].second,
                               IF j \in DOMAIN m_dataList[t].vecPairCsd
                               THEN m_dataList[t].vecPairCsd[j].second ELSE NoMat, o)]]
    /\ nMerge' = [nMerge EXCEPT ![t] = @ + 1]
    /\ tpc' = [tpc EXCEPT ![t] = "unlock"]
    /\ UNCHANGED <<gusbVars, settingsVars, m_dataList, matPsdSum, finalNetwork, vecCoherency,
                   pc, variant, localVars, mutex, ntask, runs, ret, atCall>>

InitReconfig ==
    /\ nChannels \in 1..MaxChannels
    /\ nSamples = 1
    /\ m_iNfft \in 1..MaxNfft
    /\ m_sWindowType = "hanning"
    /\ m_dataList = << >>
    /\ matPsdSum = NoMat
    /\ vecPairCsdSum = << >>
    /\ finalNetwork = NewNetwork(nChannels)
    /\ vecCoherency = << >>
    /\ pc = "idle"
    /\ variant = "real"
    /\ iNfft = 0 /\ iNRows = 0 /\ iNFreqs = 0
    /\ tapers = [first |-> NoMat, second |-> << >>]
    /\ mutex = Free
    /\ tpc = << >>
    /\ ntask = << >>
    /\ nMerge = << >>
    /\ runs = 0
    /\ ret = "none"
    /\ InitDriver
    /\ atCall = [clean |-> FALSE, cached |-> << >>, matPsdSum |-> NoMat,
                 vecPairCsdSum |-> << >>, finalNetwork |-> NewNetwork(nChannels)]

NextReconfig ==
    \/ Next
    \/ \E n \in 1..MaxNfft : SetNfft(n)
    \/ \E t \in DOMAIN tpc : TrialMergeAborts(t)
    \/ \E t \in DOMAIN tpc : TrialMergesPsdUnchecked(t)
    \/ \E t \in DOMAIN tpc : TrialMergesCsdUnchecked(t)

SpecReconfig == InitReconfig /\ [][NextReconfig]_vars

\* compute() has returned for trial t in the call that is running
ComputeReturned(t) == pc \in {"map1", "sqrt", "map2"} /\ tpc[t] = "done"

(***************************************************************************)
(* C24: when compute() has returned for a trial, whatever the trial held   *)
(* before (nothing, the result of this configuration, or the result of an  *)
(* earlier call with another FFT length), the CSD list of the trial has    *)
(* exactly C entries with the channel indices 0..C-1 in ascending order,   *)
(* the matrix of each entry has the bin count of the call, and the PSD of  *)
(* the trial is C x bins.                                                  *)
(***************************************************************************)
C24_CacheWellFormed ==
    \A t \in DOMAIN tpc :
        ComputeReturned(t) =>
            LET inputData == m_dataList[t]
            IN  /\ Len(inputData.vecPairCsd) = iNRows
                /\ \A n \in DOMAIN inputData.vecPairCsd :
                       /\ inputData.vecPairCsd[n].first = n - 1
                       /\ inputData.vecPairCsd[n].second.rows = iNRows
                       /\ inputData.vecPairCsd[n].second.cols = iNFreqs
                /\ inputData.matPsd.rows = iNRows
                /\ inputData.matPsd.cols = iNFreqs

(***************************************************************************)
(* C25: across the calls made on one settings object, calls after a change *)
(* of the FFT length included, at every merge the sum and the result of    *)
(* the trial agree in shape and in index: psdSum is empty or has the       *)
(* dimensions of the trial's PSD, and csdSum is empty or has exactly C     *)
(* entries of which entry k, like entry k of the trial's CSD list, carries *)
(* the channel index k and a matrix of the same size.                      *)
(***************************************************************************)
C25_MergeAligned ==
    \A t \in DOMAIN tpc :
        LET inputData == m_dataList[t]
        IN  /\ tpc[t] = "psd" =>
                   \/ matPsdSum.rows = 0
                   \/ matPsdSum.cols = 0
                   \/ SameShape(matPsdSum, inputData.matPsd)
            /\ tpc[t] = "csd" =>
                   \/ vecPairCsdSum = << >>
                   \/ /\ Len(vecPairCsdSum) = iNRows
                      /\ Len(inputData.vecPairCsd) >= iNRows
                      /\ \A k \in 1..iNRows :
                             /\ vecPairCsdSum[k].first = k - 1
                             /\ inputData.vecPairCsd[k].first = k - 1
                             /\ SameShape(vecPairCsdSum[k].second,
                                          inputData.vecPairCsd[k].second)

(***************************************************************************)
(* What a call leaves as a function of what it was given: the sums and the *)
(* network found at the call, and the sample matrices of the trials that   *)
(* were not cached, taken in list order.  No schedule enters these         *)
(* expressions.                                                            *)
(***************************************************************************)
RECURSIVE PsdOfInput(_)
PsdOfInput(n) ==
    IF n = 0 THEN atCall.matPsdSum
    ELSE IF atCall.cached[n] THEN PsdOfInput(n - 1)
    ELSE MergePsd(PsdOfInput(n - 1),
                  MatPsd(m_dataList[n].matData, tapers, iNRows, iNFreqs, iNfft))

RECURSIVE CsdOfInput(_)
CsdOfInput(n) ==
    IF n = 0 THEN atCall.vecPairCsdSum
    ELSE IF atCall.cached[n] THEN CsdOfInput(n - 1)
    ELSE MergeCsd(CsdOfInput(n - 1),
                  NewPairCsd(m_dataList[n].matData, tapers, iNRows, iNFreqs, iNfft, iNRows))

\* an edge as the claim compares it: source, target and weight vector
Triple(e) == <<e.src, e.dst, e.w>>

EdgesOfInput ==
    LET psd == cwiseSqrt(PsdOfInput(Len(m_dataList)))
        csd == CsdOfInput(Len(m_dataList))
    IN  UNION {{<<csd[k].first, j, Weight(variant, Quotient(csd[k], psd).e[j])>> :
                    j \in csd[k].first..(iNRows - 1)} : k \in DOMAIN csd}

(***************************************************************************)
(* C26: the output does not depend on the schedule.  When a call of        *)
(* calculateReal or calculateImag has returned, the set of edges (source,  *)
(* target, weight vector) of the network and the set of edges of every     *)
(* node's list are the sets that the input and the state found at the call *)
(* determine, whatever the interleaving of the trial tasks and of the      *)
(* normalization tasks was; only the order within the lists is left to the *)
(* schedule.                                                               *)
(***************************************************************************)
C26_ScheduleDeterminism ==
    GraphCallReturned =>
        LET new == EdgesOfInput
        IN  /\ {Triple(e) : e \in Range(finalNetwork.edges)} =
                   {Triple(e) : e \in Range(atCall.finalNetwork.edges)} \cup new
            /\ \A c \in DOMAIN finalNetwork.nodes :
                   {Triple(e) : e \in Range(finalNetwork.nodes[c])} =
                       {Triple(e) : e \in Range(atCall.finalNetwork.nodes[c])}
                           \cup {x \in new : x[1] = c \/ x[2] = c}

\* two trials with different samples were merged and the normalization task
\* of the second pair attached its edge before the task of the first pair
C26_Witness ==
    /\ GraphCallReturned /\ atCall.clean
    /\ nChannels = 2 /\ nSamples = 2
    /\ Len(m_dataList) = 2
    /\ m_dataList[1].matData # m_dataList[2].matData
    /\ Len(finalNetwork.edges) = 3
    /\ finalNetwork.edges[1].src = 1
    /\ \E f \in DOMAIN finalNetwork.edges[2].w :
           finalNetwork.edges[2].w[f][2] \notin {Undefined, Lift(VZero(iNfft))}

\* the CSD of the channel pair (i, j) in bin f, summed over the first n trials
RECURSIVE CsdPairSum(_, _, _, _)
CsdPairSum(n, i, j, f) ==
    IF n = 1
    THEN Lift(CsdRow(m_dataList[1].matData, tapers, iNFreqs, iNfft, i, j)[f])
    ELSE TAdd(CsdPairSum(n - 1, i, j, f),
              CsdRow(m_dataList[n].matData, tapers, iNFreqs, iNfft, i, j)[f])

\* a call of calculate that found empty accumulators and un-cached trials has
\* just come back
CleanComplexCallReturned ==
    pc = "idle" /\ ret = "done" /\ variant = "cplx" /\ atCall.clean

(***************************************************************************)
(* C27: calculate returns one entry per channel i and makes no graph edge, *)
(* and in the matrix of entry i every row j, the rows j < i included,      *)
(* holds in each bin the accumulated CSD of the channel pair (i, j)        *)
(* divided by the product of the square-rooted psdSum rows i and j; no row *)
(* holds a value computed for another pair.                                *)
(***************************************************************************)
C27_ComplexCoherencyRows ==
    CleanComplexCallReturned =>
        /\ Len(vecCoherency) = iNRows
        /\ finalNetwork = atCall.finalNetwork
        /\ \A i \in 0..(iNRows - 1) :
               /\ vecCoherency[i + 1].first = i
               /\ \A j \in 0..(iNRows - 1) : \A f \in 0..(iNFreqs - 1) :
                      vecCoherency[i + 1].second.e[j][f] =
                          TQuot(CsdPairSum(Len(m_dataList), i, j, f),
                                matPsdSum.e[i][f], matPsdSum.e[j][f])

SerialNames == <<DefaultSerial, "UB-0002", "UB-0003", "UB-0004", "UB-0005", "UB-0006",
                 "UB-0007", "UB-0008">>
Roster == SubSeq(SerialNames, 1, MaxSerials)
SerialLists == {SubSeq(Roster, 1, n) : n \in 0..MaxSerials}
RatesTried == {32, 1200, 1000}
ChannelLists ==
    {<< >>, <<1, 2>>, <<2, 1>>, <<17>>, <<1, 17>>, [i \in 1..17 |-> i]}
FilePaths == {"", "out/"}

\* the process has not stopped in an undefined operation
Alive == dcall.op # "crashed"

Called(op, result) == dcall' = [op |-> op, ret |-> result, inits |-> dcall.inits]

\* m_vpSerials[0] of an empty vector: what resize(0) left in the storage, which
\* is the pointer to the serial of the former master or anything else
DanglingSerials == {driver.m_callSequenceSerials[Len(driver.m_callSequenceSerials)],
                    "?"}

setSerials(list) ==
    /\ Alive
    /\ \E first \in IF list = << >> THEN DanglingSerials ELSE {list[1]} :
           LET r == SerialsSet(driver, list, first)
           IN  /\ driver' = r.d
               /\ Called("setSerials", r.ret)
    /\ UNCHANGED <<devices, coherencyVars>>

\* setSerials with an empty list while not running: the read of m_vpSerials[0]
\* stops the process
setSerialsCrashes ==
    /\ Alive
    /\ ~driver.m_isRunning
    /\ Called("crashed", FALSE)
    /\ UNCHANGED <<driver, devices, coherencyVars>>

setSampleRate(sampleRate) ==
    /\ Alive
    /\ LET r == SampleRateSet(driver, sampleRate)
       IN  /\ driver' = r.d
           /\ Called("setSampleRate", r.ret)
    /\ UNCHANGED <<devices, coherencyVars>>

setChannels(list) ==
    /\ Alive
    /\ LET r == ChannelsSet(driver, list)
       IN  /\ driver' = r.d
           /\ Called("setChannels", r.ret)
    /\ UNCHANGED <<devices, coherencyVars>>

setFileWriting(doFileWriting) ==
    /\ Alive
    /\ LET r == FileWritingSet(driver, doFileWriting)
       IN  /\ driver' = r.d
           /\ Called("setFileWriting", r.ret)
    /\ UNCHANGED <<devices, coherencyVars>>

\* a setFilePath without the test of m_isRunning
setFilePathWhileRunning(FilePath) ==
    /\ Alive
    /\ driver' = [driver EXCEPT !.m_filePath = FilePath, !.m_bIsWriting = TRUE]
    /\ Called("setFilePath", TRUE)
    /\ UNCHANGED <<devices, coherencyVars>>

setFilePath(FilePath) ==
    /\ Alive
    /\ LET r == FilePathSet(driver, FilePath)
       IN  /\ driver' = r.d
           /\ Called("setFilePath", r.ret)
    /\ UNCHANGED <<devices, coherencyVars>>

\* a handle as GT_OpenDeviceEx gives it out; closes counts the calls of
\* GT_CloseDevice for it
Opened(serial) == [serial |-> serial, closes |-> 0, role |-> "none", started |-> FALSE]

\* GT_CloseDevice for every handle of the list
CloseAll(devs, handles) ==
    [h \in DOMAIN devs |->
        [devs[h] EXCEPT !.closes = @ + Cardinality({n \in DOMAIN handles : handles[n] = h})]]

\* where an API call of initDevice can fail: the call and the place in the list
\* the loop is at
Throwing == {"GT_OpenDeviceEx", "configure"}
Returning == {"GT_Start", "GT_GetData"}
NoFailure == <<"none", 0>>

\* initDevice up to the end of its first loop when no call fails: every serial
\* of the call sequence is opened and configured, the last one as master
AllOpened(devs, seq) ==
    devs \o [p \in 1..Len(seq) |->
                [Opened(seq[p]) EXCEPT !.role = IF p # Len(seq) THEN "slave" ELSE "master"]]

\* initDevice when GT_OpenDeviceEx or one of the configuring calls fails for
\* the device at place fail[2]: the string thrown is caught by the catch block
initDeviceThrows(fail) ==
    /\ Alive
    /\ dcall.inits < MaxInits
    /\ LET seq == driver.m_callSequenceSerials
           base == Len(devices)
           at == fail[2]
           opened == AllOpened(devices, SubSeq(seq, 1, at - 1)) \o
                         (IF fail[1] = "configure" THEN <<Opened(seq[at])>> ELSE << >>)
           handles == driver.m_openedDevicesHandles \o
                          [p \in 1..(Len(opened) - base) |-> base + p]
       IN  /\ fail[1] \in Throwing /\ at \in 1..Len(seq)
           /\ devices' = CloseAll(opened, handles)
           /\ driver' = [driver EXCEPT !.m_isRunning = FALSE,
                                       !.m_openedDevicesHandles = << >>]
    /\ dcall' = [op |-> "initDevice", ret |-> FALSE, inits |-> dcall.inits + 1]
    /\ UNCHANGED coherencyVars

\* initDevice when every device is opened and configured: the buffers are made,
\* the file is opened, and the devices are started in the order of the handles;
\* GT_Start or GT_GetData may fail for the device at place fail[2]
initDevice(fail) ==
    /\ Alive
    /\ dcall.inits < MaxInits
    /\ LET seq == driver.m_callSequenceSerials
           base == Len(devices)
           opened == AllOpened(devices, seq)
           handles == driver.m_openedDevicesHandles \o [p \in 1..Len(seq) |-> base + p]
           at == fail[2]
           last == CASE fail = NoFailure -> Len(handles)
                     [] fail[1] = "GT_Start" -> at - 1
                     [] OTHER -> at
       IN  /\ fail = NoFailure \/ (fail[1] \in Returning /\ at \in 1..Len(handles))
           /\ devices' = [h \in DOMAIN opened |->
                             IF \E n \in 1..last : handles[n] = h
                             THEN [opened[h] EXCEPT !.started = TRUE]
                             ELSE opened[h]]
           /\ driver' = [driver EXCEPT
                  !.m_isRunning = TRUE,
                  !.m_openedDevicesHandles = handles,
                  !.m_callSequenceHandles = handles,
                  !.m_numDevices = Len(handles),
                  !.buffers = TRUE,
                  !.fileOpen = @ \/ driver.m_bIsWriting]
           /\ dcall' = [op |-> "initDevice", ret |-> fail = NoFailure,
                        inits |-> dcall.inits + 1]
    /\ UNCHANGED coherencyVars

\* uninitDevice, called by the user of the driver when initDevice has made the
\* buffers
uninitDevice ==
    /\ Alive
    /\ driver.buffers
    /\ devices' = CloseAll(CloseAll([h \in DOMAIN devices |->
                                        IF \E n \in 1..driver.m_numDevices :
                                               driver.m_callSequenceHandles[n] = h
                                        THEN [devices[h] EXCEPT !.started = FALSE]
                                        ELSE devices[h]],
                                    driver.m_callSequenceHandles),
                           driver.m_openedDevicesHandles)
    /\ driver' = [driver EXCEPT !.m_isRunning = FALSE,
                                !.m_openedDevicesHandles = << >>,
                                !.m_callSequenceHandles = << >>,
                                !.buffers = FALSE,
                                !.fileOpen = IF driver.m_bIsWriting THEN FALSE ELSE @]
    /\ Called("uninitDevice", TRUE)
    /\ UNCHANGED coherencyVars

\* getSampleMatrixValue, called by the user of the driver after an initDevice
\* that returned true; ok tells whether every wait and every transfer went well
getSampleMatrixValue(ok) ==
    /\ Alive
    /\ driver.m_isRunning /\ driver.buffers
    /\ Called("getSampleMatrixValue", ok)
    /\ UNCHANGED <<driver, devices, coherencyVars>>

FailPoints ==
    {NoFailure} \cup ((Throwing \cup Returning) \X (1..(MaxInits * 4)))

InitGUSBAmp ==
    /\ InitDriver
    /\ nChannels = 1
    /\ nSamples = 1
    /\ m_iNfft = 1
    /\ m_sWindowType = "hanning"
    /\ m_dataList = << >>
    /\ matPsdSum = NoMat
    /\ vecPairCsdSum = << >>
    /\ finalNetwork = NewNetwork(nChannels)
    /\ vecCoherency = << >>
    /\ pc = "idle"
    /\ variant = "real"
    /\ iNfft = 0 /\ iNRows = 0 /\ iNFreqs = 0
    /\ tapers = [first |-> NoMat, second |-> << >>]
    /\ mutex = Free
    /\ tpc = << >>
    /\ ntask = << >>
    /\ nMerge = << >>
    /\ runs = 0
    /\ ret = "none"
    /\ atCall = [clean |-> FALSE, cached |-> << >>, matPsdSum |-> NoMat,
                 vecPairCsdSum |-> << >>, finalNetwork |-> NewNetwork(nChannels)]

NextGUSBAmp ==
    \/ \E list \in SerialLists : setSerials(list)
    \/ setSerialsCrashes
    \/ \E sampleRate \in RatesTried : setSampleRate(sampleRate)
    \/ \E list \in ChannelLists : setChannels(list)
    \/ \E doFileWriting \in BOOLEAN : setFileWriting(doFileWriting)
    \/ \E FilePath \in FilePaths : setFilePath(FilePath)
    \/ \E fail \in FailPoints : initDeviceThrows(fail)
    \/ \E fail \in FailPoints : initDevice(fail)
    \/ uninitDevice
    \/ \E ok \in BOOLEAN : getSampleMatrixValue(ok)

SpecGUSBAmp == InitGUSBAmp /\ [][NextGUSBAmp]_vars

Setters == {"setSerials", "setSampleRate", "setChannels", "setFileWriting", "setFilePath"}

(***************************************************************************)
(* C29: while m_isRunning is true, each of setSerials, setSampleRate,      *)
(* setChannels, setFileWriting and setFilePath returns false and leaves    *)
(* the driver as it is (call sequence of the serials, sample rate, number  *)
(* of scans, channel list, size of the output matrix, file-writing flag    *)
(* and file path); and m_isRunning becomes true in initDevice only.        *)
(***************************************************************************)
C29_SettersRejectedWhileRunning ==
    [][/\ (driver.m_isRunning /\ dcall'.op \in Setters) =>
              /\ dcall'.ret = FALSE
              /\ driver' = driver
              /\ devices' = devices
       /\ (~driver.m_isRunning /\ driver'.m_isRunning) => dcall'.op = "initDevice"]_vars

\* the driver is running and the last call, a setFilePath, was turned down
C29_Witness ==
    /\ driver.m_isRunning
    /\ dcall.op = "setFilePath"
    /\ dcall.ret = FALSE
    /\ driver.m_filePath = ""
    /\ \E h \in DOMAIN devices : devices[h].started

(***************************************************************************)
(* C30: whenever initDevice has returned a failure, whichever call failed  *)
(* (opening or configuring a device, GT_Start, GT_GetData), every device   *)
(* opened so far is closed, the list of opened handles is empty and        *)
(* m_isRunning is false, so that the setters are accepted again.           *)
(***************************************************************************)
C30_FailedInitCleansUp ==
    (dcall.op = "initDevice" /\ dcall.ret = FALSE) =>
        /\ \A h \in DOMAIN devices : devices[h].closes >= 1
        /\ driver.m_openedDevicesHandles = << >>
        /\ ~driver.m_isRunning


(***************************************************************************)
(* C31: after an initDevice that returned true, uninitDevice closes every  *)
(* opened device exactly once (GT_CloseDevice is called once for each      *)
(* handle), leaves m_openedDevicesHandles and m_callSequenceHandles empty  *)
(* and sets m_isRunning to false.                                          *)
(***************************************************************************)
C31_UninitClosesOnce ==
    [][(dcall.op = "initDevice" /\ dcall.ret = TRUE /\ dcall'.op = "uninitDevice") =>
           /\ \A h \in DOMAIN devices' : devices'[h].closes = 1
           /\ driver'.m_openedDevicesHandles = << >>
           /\ driver'.m_callSequenceHandles = << >>
           /\ ~driver'.m_isRunning]_vars


\* what C32 asks of a channel list: at most 16 entries, strictly ascending,
\* every value smaller than 17
AscendingBelow17(list) ==
    /\ Len(list) <= 16
    /\ \A i \in 1..(Len(list) - 1) : list[i + 1] > list[i]
    /\ \A i \in DOMAIN list : list[i] < 17

(***************************************************************************)
(* C32: setChannels called while the driver is not running returns true    *)
(* and stores the list if and only if the list has at most 16 entries, is  *)
(* strictly ascending and every value, the first included, is smaller than *)
(* 17; otherwise it returns false and leaves the channel list, the channel *)
(* count and the size of the output matrix unchanged.                      *)
(***************************************************************************)
C32_SetChannelsAcceptsValidLists ==
    [][\A list \in ChannelLists :
           (~driver.m_isRunning /\ setChannels(list)) =>
               IF AscendingBelow17(list)
               THEN /\ dcall'.ret = TRUE
                    /\ driver'.m_NUMBER_OF_CHANNELS = Len(list)
                    /\ \A i \in DOMAIN list : driver'.m_channelsToAcquire[i] = list[i]
               ELSE /\ dcall'.ret = FALSE
                    /\ driver'.m_channelsToAcquire = driver.m_channelsToAcquire
                    /\ driver'.m_NUMBER_OF_CHANNELS = driver.m_NUMBER_OF_CHANNELS
                    /\ driver'.m_sizeOfMatrix = driver.m_sizeOfMatrix]_vars


(***************************************************************************)
(* C33: after a setSerials(list) that returns true (0 to 4 serials, driver *)
(* not running) the call sequence has as many entries as list and is the   *)
(* slaves list[1..] in their order followed by the master list[0], and     *)
(* m_SLAVE_SERIALS_SIZE = size - 1 >= 0; an initDevice that opens the      *)
(* devices configures the last one of the sequence as master and every     *)
(* other one as slave.                                                     *)
(***************************************************************************)
C33_CallSequenceOfSerials ==
    [][/\ \A list \in SerialLists :
              (setSerials(list) /\ dcall'.ret = TRUE) =>
                  /\ Len(driver'.m_callSequenceSerials) = Len(list)
                  /\ driver'.m_callSequenceSerials =
                         SubSeq(list, 2, Len(list)) \o <<list[1]>>
                  /\ driver'.m_SLAVE_SERIALS_SIZE = Len(list) - 1
                  /\ driver'.m_SLAVE_SERIALS_SIZE >= 0
       /\ (dcall'.op = "initDevice" /\ dcall'.ret = TRUE) =>
              LET handles == driver'.m_callSequenceHandles
              IN  /\ Len(handles) = Len(driver.m_callSequenceSerials)
                  /\ \A n \in DOMAIN handles :
                         /\ devices'[handles[n]].serial = driver.m_callSequenceSerials[n]
                         /\ devices'[handles[n]].role =
                                IF n = Len(handles) THEN "master" ELSE "slave"]_vars


(***************************************************************************)
(* C34: setSampleRate called with a rate that is not supported, while the  *)
(* driver is not running, returns false, and the driver then has the       *)
(* default sample rate of 1200 Hz with 128 scans, whatever rate was set    *)
(* before.                                                                 *)
(***************************************************************************)
C34_UnsupportedRateFallsBackTo1200 ==
    [][\A sampleRate \in RatesTried :
           (/\ ~driver.m_isRunning
            /\ ScansOf(sampleRate) = 0
            /\ setSampleRate(sampleRate)) =>
               /\ dcall'.ret = FALSE
               /\ driver'.m_SAMPLE_RATE_HZ = 1200
               /\ driver'.m_NUMBER_OF_SCANS = 128]_vars


(***************************************************************************)
(* C35: after construction and after any sequence of calls of setSerials,  *)
(* setChannels and setSampleRate, accepted or rejected, the size of the    *)
(* sample matrix the driver reports is                                     *)
(* m_sizeOfMatrix[0] = m_NUMBER_OF_CHANNELS * (1 + m_SLAVE_SERIALS_SIZE)   *)
(* and m_sizeOfMatrix[1] = m_NUMBER_OF_SCANS * m_QUEUE_SIZE.               *)
(***************************************************************************)
C35_SizeOfMatrix ==
    /\ driver.m_sizeOfMatrix[1] =
           driver.m_NUMBER_OF_CHANNELS * (1 + driver.m_SLAVE_SERIALS_SIZE)
    /\ driver.m_sizeOfMatrix[2] = driver.m_NUMBER_OF_SCANS * driver.m_QUEUE_SIZE

\* 4 devices at 32 Hz, and setChannels has just stored 2 channels
C35_Witness ==
    /\ dcall.op = "setChannels" /\ dcall.ret = TRUE
    /\ driver.m_NUMBER_OF_CHANNELS = 2
    /\ driver.m_SLAVE_SERIALS_SIZE = 3
    /\ driver.m_NUMBER_OF_SCANS = 1
    /\ driver.m_sizeOfMatrix = <<8, 4>>

====
